---- MODULE Spec2Model ----
(***************************************************************************)
(* Model of the ClassSched schedule builder                                *)
(* (src/src/pages/admin/ScheduleBuilder.tsx, src/src/lib/timeUtils.ts):    *)
(* the time axis, the slot index resolver, the drag selection and the      *)
(* create/edit modal, the event store, the rendering planner and the       *)
(* localStorage persistence with its debounced autosave.                   *)
(*                                                                         *)
(* A time string "H:MM AM|PM" is the record [h, m, ap] of the three groups *)
(* the regular expression of parseTime captures; minutes since midnight    *)
(* are integers.                                                           *)
(***************************************************************************)
EXTENDS Integers, Sequences, FiniteSets, TLC

\* ------------------------------------------------------------------------
\* Time axis (timeUtils.ts)
\* ------------------------------------------------------------------------

T(h, m, ap) == [h |-> h, m |-> m, ap |-> ap]

\* JavaScript's % : the sign of the result follows the dividend.
JsRem(a, b) == IF a >= 0 THEN a % b ELSE 0 - ((0 - a) % b)

Min2(a, b) == IF a <= b THEN a ELSE b
Max2(a, b) == IF a >= b THEN a ELSE b

parseTime(time) ==
    LET h0 == IF time.h = 12 THEN 0 ELSE time.h
        h1 == IF time.ap = "PM" THEN h0 + 12 ELSE h0
    IN  h1 * 60 + time.m

parseTimeToMinutes(time) ==
    LET h0 == IF time.h = 12 THEN 0 ELSE time.h
        h1 == IF time.ap = "PM" THEN h0 + 12 ELSE h0
    IN  h1 * 60 + time.m

formatTime(totalMinutes) ==
    LET tm   == JsRem(JsRem(totalMinutes, 24 * 60) + 24 * 60, 24 * 60)
        h    == tm \div 60
        m    == tm % 60
        ampm == IF h >= 12 THEN "PM" ELSE "AM"
        h12  == IF h % 12 = 0 THEN 12 ELSE h % 12
    IN  T(h12, m, ampm)

\* --- time strings as text ---
\* A text is a sequence of one-character strings.  TimeText is the template
\* literal of formatTime; MatchTime is time.match(/^(\d{1,2}):(\d{2})\s*(AM|PM)$/i)
\* with parseInt applied to the first two groups and toUpperCase to the third.

DigitChars == <<"0", "1", "2", "3", "4", "5", "6", "7", "8", "9">>

IsDigit(c) == \E d \in 1..Len(DigitChars) : DigitChars[d] = c

DigitVal(c) == (CHOOSE d \in 1..Len(DigitChars) : DigitChars[d] = c) - 1

\* Number.prototype.toString of an integer in 0..999
NumText(n) ==
    IF n < 10 THEN <<DigitChars[n + 1]>>
    ELSE IF n < 100 THEN <<DigitChars[(n \div 10) + 1], DigitChars[(n % 10) + 1]>>
    ELSE <<DigitChars[(n \div 100) + 1], DigitChars[((n \div 10) % 10) + 1],
           DigitChars[(n % 10) + 1]>>

\* Mutant: no padding
PadStart2None(text) == text

\* String.prototype.padStart(2, "0")
PadStart2(text) == IF Len(text) < 2 THEN <<"0">> \o text ELSE text

\* parseInt(text, 10) of a text of one to three digits
ParseInt(text) ==
    IF Len(text) = 1 THEN DigitVal(text[1])
    ELSE IF Len(text) = 2 THEN DigitVal(text[1]) * 10 + DigitVal(text[2])
    ELSE DigitVal(text[1]) * 100 + DigitVal(text[2]) * 10 + DigitVal(text[3])

\* String.prototype.toUpperCase on the letters of the meridiem
ToUpperChar(c) ==
    IF c = "a" THEN "A" ELSE IF c = "p" THEN "P" ELSE IF c = "m" THEN "M" ELSE c

\* The characters \s matches, of those the model writes
Whitespace == {" ", "\t"}

\* `${h}:${m.toString().padStart(2, "0")} ${ampm}`
TimeText(t) ==
    NumText(t.h) \o <<":">> \o PadStart2(NumText(t.m)) \o <<" ">>
    \o (IF t.ap = "PM" THEN <<"P", "M">> ELSE <<"A", "M">>)

\* The result of a match that fails (null)
NoMatch == [h |-> 0 - 1, m |-> 0 - 1, ap |-> "null"]

\* The groups of the match of the regular expression on the text, NoMatch
\* when it does not match: one or two digits, a colon, two digits, any
\* whitespace, AM or PM in either case, the end of the text.
MatchTime(text) ==
    LET n == Len(text)
        colon == IF n >= 2 /\ text[2] = ":" THEN 2
                 ELSE IF n >= 3 /\ text[3] = ":" THEN 3 ELSE 0
    IN  IF /\ colon # 0
           /\ \A i \in 1..(colon - 1) : IsDigit(text[i])
           /\ n >= colon + 4
           /\ IsDigit(text[colon + 1]) /\ IsDigit(text[colon + 2])
           /\ \A i \in (colon + 3)..(n - 2) : text[i] \in Whitespace
           /\ ToUpperChar(text[n - 1]) \in {"A", "P"}
           /\ ToUpperChar(text[n]) = "M"
        THEN T(ParseInt(SubSeq(text, 1, colon - 1)),
               ParseInt(SubSeq(text, colon + 1, colon + 2)),
               IF ToUpperChar(text[n - 1]) = "P" THEN "PM" ELSE "AM")
        ELSE NoMatch

\* What a call returns: a value, or the Error it throws
Returned(v) == [threw |-> FALSE, value |-> v]
Threw(e) == [threw |-> TRUE, error |-> e]

\* parseTime on a text: the throw of a failed match, else the minutes
parseTimeOfText(text) ==
    IF MatchTime(text) = NoMatch THEN Threw("Invalid time format")
    ELSE Returned(parseTime(MatchTime(text)))

\* parseTimeToMinutes on a text
parseTimeToMinutesOfText(text) ==
    IF MatchTime(text) = NoMatch THEN Threw("Invalid time format")
    ELSE Returned(parseTimeToMinutes(MatchTime(text)))

\* formatTime as the text it returns
formatTimeText(totalMinutes) == TimeText(formatTime(totalMinutes))

\* Mutant: the loop stops when a step ends at the window end
RECURSIVE SlotsFromStrict(_, _, _)
SlotsFromStrict(cursor, stepMinutes, normalizedEndMin) ==
    IF cursor + stepMinutes < normalizedEndMin
    THEN <<[start |-> formatTime(cursor), end |-> formatTime(cursor + stepMinutes),
            kind |-> "teaching", label |-> "undefined"]>>
         \o SlotsFromStrict(cursor + stepMinutes, stepMinutes, normalizedEndMin)
    ELSE <<>>

RECURSIVE SlotsFrom(_, _, _)
SlotsFrom(cursor, stepMinutes, normalizedEndMin) ==
    IF cursor + stepMinutes <= normalizedEndMin
    THEN <<[start |-> formatTime(cursor), end |-> formatTime(cursor + stepMinutes),
            kind |-> "teaching", label |-> "undefined"]>>
         \o SlotsFrom(cursor + stepMinutes, stepMinutes, normalizedEndMin)
    ELSE <<>>

generateSlots(start, end, stepMinutes) ==
    LET startMin == parseTime(start)
        endMin   == parseTime(end)
        normalizedEndMin == IF endMin <= startMin THEN endMin + 24 * 60 ELSE endMin
    IN  SlotsFrom(startMin, stepMinutes, normalizedEndMin)

\* A break is [start, end, stepMinutes, label]; an absent stepMinutes is
\* NoStep and an absent label is "undefined".  A break range is the tuple
\* <<ns, ne, step, label>> of the source.
NoStep == 0 - 1


RECURSIVE InsertSorted(_, _)
InsertSorted(sorted, r) ==
    IF sorted = <<>> THEN <<r>>
    ELSE IF r[1] < Head(sorted)[1] THEN <<r>> \o sorted
    ELSE <<Head(sorted)>> \o InsertSorted(Tail(sorted), r)

\* Array.prototype.sort with the comparator a[0] - b[0] (stable).
RECURSIVE SortByStart(_)
SortByStart(rs) ==
    IF rs = <<>> THEN <<>>
    ELSE InsertSorted(SortByStart(SubSeq(rs, 1, Len(rs) - 1)), rs[Len(rs)])

\* Mutant: a merged range keeps the step of its first break
RECURSIVE MergeRangesFirstStep(_, _)
MergeRangesFirstStep(merged, rest) ==
    IF rest = <<>> THEN merged
    ELSE LET r == Head(rest) IN
         IF merged = <<>> THEN MergeRangesFirstStep(<<r>>, Tail(rest))
         ELSE LET last == merged[Len(merged)] IN
              IF r[1] <= last[2]
              THEN MergeRangesFirstStep(
                     [merged EXCEPT ![Len(merged)] =
                        <<last[1], Max2(last[2], r[2]), last[3],
                          IF (last[4] = "undefined" \/ last[4] = "") /\ r[4] # "undefined" /\ r[4] # ""
                          THEN r[4] ELSE last[4]>>],
                     Tail(rest))
              ELSE MergeRangesFirstStep(Append(merged, r), Tail(rest))

RECURSIVE MergeRanges(_, _)
MergeRanges(merged, rest) ==
    IF rest = <<>> THEN merged
    ELSE LET r == Head(rest) IN
         IF merged = <<>> THEN MergeRanges(<<r>>, Tail(rest))
         ELSE LET last == merged[Len(merged)] IN
              IF r[1] <= last[2]
              THEN MergeRanges(
                     [merged EXCEPT ![Len(merged)] =
                        <<last[1], Max2(last[2], r[2]), Min2(last[3], r[3]),
                          IF (last[4] = "undefined" \/ last[4] = "") /\ r[4] # "undefined" /\ r[4] # ""
                          THEN r[4] ELSE last[4]>>],
                     Tail(rest))
              ELSE MergeRanges(Append(merged, r), Tail(rest))

\* merged.find(([s, e]) => cursor >= s && cursor < e): index of the first
\* such range, 0 when there is none.
FindBreak(merged, cursor) ==
    LET hits == {i \in 1..Len(merged) : cursor >= merged[i][1] /\ cursor < merged[i][2]}
    IN  IF hits = {} THEN 0 ELSE CHOOSE i \in hits : \A j \in hits : i <= j

\* The loop of the source with a step that is not positive does not advance
\* and never ends: the call does not return.  The mark stands for the slots
\* it would never deliver.
NeverReturns ==
    <<[start |-> formatTime(0), end |-> formatTime(0), kind |-> "never returns",
       label |-> "undefined"]>>

RECURSIVE Sweep(_, _, _, _)
Sweep(cursor, stepMinutes, normalizedEndMin, merged) ==
    IF cursor < normalizedEndMin
    THEN LET bi   == FindBreak(merged, cursor)
             step == IF bi # 0 THEN merged[bi][3] ELSE stepMinutes
             next == Min2(cursor + step, normalizedEndMin)
             slot == IF bi # 0
                     THEN [start |-> formatTime(cursor), end |-> formatTime(next), kind |-> "break",
                           label |-> IF merged[bi][4] = "undefined" THEN "Break" ELSE merged[bi][4]]
                     ELSE [start |-> formatTime(cursor), end |-> formatTime(next), kind |-> "teaching",
                           label |-> "undefined"]
         IN  IF next > cursor
             THEN <<slot>> \o Sweep(next, stepMinutes, normalizedEndMin, merged)
             ELSE NeverReturns
    ELSE <<>>

\* normalizedEndMin of a window
NormalizedEnd(start, end) ==
    IF parseTime(end) <= parseTime(start) THEN parseTime(end) + 24 * 60 ELSE parseTime(end)

\* breakRanges: the breaks as minute ranges, filtered to the window and clamped
BreakRanges(fullStart, fullEnd, breaks) ==
    LET startMin == parseTime(fullStart)
        normalizedEndMin == NormalizedEnd(fullStart, fullEnd)
        ToRange(b) ==
            LET s  == parseTime(b.start)
                e  == parseTime(b.end)
                ns == IF s <= startMin THEN s + 24 * 60 ELSE s
                ne == IF e <= startMin THEN e + 24 * 60 ELSE e
            IN  <<ns, ne, IF b.stepMinutes = NoStep THEN ne - ns ELSE b.stepMinutes, b.label>>
        InWindow(r) == r[2] > startMin /\ r[1] < normalizedEndMin
        Clamp(r) == <<Max2(r[1], startMin), Min2(r[2], normalizedEndMin), r[3], r[4]>>
        mapped == [i \in 1..Len(breaks) |-> ToRange(breaks[i])]
        kept == SelectSeq(mapped, InWindow)
    IN  [i \in 1..Len(kept) |-> Clamp(kept[i])]

\* merged: the break ranges after the sort and the merge loop
MergedBreaks(fullStart, fullEnd, breaks) ==
    MergeRanges(<<>>, SortByStart(BreakRanges(fullStart, fullEnd, breaks)))

generateSlotsWithBreaks(fullStart, fullEnd, stepMinutes, breaks) ==
    IF Len(BreakRanges(fullStart, fullEnd, breaks)) = 0
    THEN generateSlots(fullStart, fullEnd, stepMinutes)
    ELSE Sweep(parseTime(fullStart), stepMinutes, NormalizedEnd(fullStart, fullEnd),
               MergedBreaks(fullStart, fullEnd, breaks))

timeSlotsSHS ==
    generateSlotsWithBreaks(T(7, 45, "AM"), T(5, 15, "PM"), 60,
        << [start |-> T(9, 45, "AM"), end |-> T(10, 0, "AM"), stepMinutes |-> 15, label |-> "Morning Recess"],
           [start |-> T(12, 0, "PM"), end |-> T(1, 0, "PM"), stepMinutes |-> 60, label |-> "Lunch"],
           [start |-> T(3, 0, "PM"), end |-> T(3, 15, "PM"), stepMinutes |-> 15, label |-> "Afternoon Recess"] >>)

\* ------------------------------------------------------------------------
\* Constants of ScheduleBuilder.tsx and the bounds of the model
\* ------------------------------------------------------------------------

FULL_DAY_START == T(8, 0, "AM")
FULL_DAY_END == T(7, 0, "PM")
CURRENT_USER == "Joy Siocon"

\* null / undefined of the source, one per type
NullStr == "null"
NullTime == [h |-> 0, m |-> 0, ap |-> "null"]
NullIdx == 0 - 1
NoTimestamp == 0 - 1

\* Bounds: the number of timestamped mutations (creations and accepted
\* edits) of a run, the number of events held at once, the highest slot
\* index and the number of trailing weekdays the pointer and the modal's
\* selects are driven over.
MaxClock == 2
MaxEvents == 2
MaxDragIdx == 2
MaxDragDays == 2

\* Bound: formatTime is called on the integers from MaxDayWraps days before
\* midnight to MaxDayWraps days after the day
MaxDayWraps == 2

\* Bound: the number of breaks handed to generateSlotsWithBreaks
MaxBreaks == 2

\* Bound: the number of hours split into half hours at once
MaxSplitHours == 3

\* Bounds: the number of events of a stored record written by an earlier
\* version, and the number of ids the load effect makes in a run
MaxStored == 2
MaxMadeIds == 4

VARIABLES
    scheduleType, halfHourEnabled, splitHours,      \* schedule configuration
    timeSlots,              \* the memoised slot sequence of the configuration
    selectedClass, schoolYear, semester,            \* parts of the storage key
    events,                                         \* the in-memory event list
    modalOpen, editingId,
    formSubject, formTeacher, formRoom, formDay, formStartTime, formEndTime,
    modalSelectedDays, modalApplyToAll,
    isSelecting, selStartDay, selEndDay, selStartIndex, selEndIndex,
    autosaveStatus, lastSavedAt, autosaveEnabled,
    timers,                 \* pending window.setTimeout callbacks: the closures they hold
    autosaveTimer,          \* autosaveTimer.current: index into timers, 0 for null
    storage,                \* localStorage: storage key -> stored string
    resetConfirmOpen,
    clock, nextId,          \* new Date() and makeId()
    lastOp,                 \* history: the handler that ran last and the branch it took
    utilCall, utilResult    \* a call of a function of the time axis or of the resolver
                            \* on its own: the function with its arguments, and what it returned

configVars == <<scheduleType, halfHourEnabled, splitHours, timeSlots>>
keyVars == <<selectedClass, schoolYear, semester>>
formVars == <<modalOpen, editingId, formSubject, formTeacher, formRoom, formDay,
              formStartTime, formEndTime, modalSelectedDays, modalApplyToAll>>
selVars == <<isSelecting, selStartDay, selEndDay, selStartIndex, selEndIndex>>
saveVars == <<autosaveStatus, lastSavedAt, timers, autosaveTimer, storage>>
utilVars == <<utilCall, utilResult>>
vars == <<configVars, keyVars, events, formVars, selVars, saveVars, autosaveEnabled,
          resetConfirmOpen, clock, nextId, lastOp, utilVars>>

\* ------------------------------------------------------------------------
\* Slots and weekdays of the current configuration
\* ------------------------------------------------------------------------

RECURSIVE MergeHalfSlots(_, _, _)
MergeHalfSlots(halfSlots, i, splitHourMinutes) ==
    IF i > Len(halfSlots) THEN <<>>
    ELSE LET slot == halfSlots[i]
             startMin == parseTimeToMinutes(slot.start)
             hourStartMin == (startMin \div 60) * 60
         IN  IF hourStartMin \in splitHourMinutes
             THEN <<slot>> \o MergeHalfSlots(halfSlots, i + 1, splitHourMinutes)
             ELSE IF i + 1 <= Len(halfSlots)
                     /\ parseTimeToMinutes(halfSlots[i + 1].start) = startMin + 30
                     /\ (parseTimeToMinutes(halfSlots[i + 1].start) \div 60) * 60 = hourStartMin
                  THEN <<[start |-> slot.start, end |-> halfSlots[i + 1].end,
                          kind |-> "teaching", label |-> "undefined"]>>
                       \o MergeHalfSlots(halfSlots, i + 2, splitHourMinutes)
                  ELSE <<slot>> \o MergeHalfSlots(halfSlots, i + 1, splitHourMinutes)

hourSlotsTESDA == generateSlots(FULL_DAY_START, FULL_DAY_END, 60)
halfSlotsTESDA == generateSlots(FULL_DAY_START, FULL_DAY_END, 30)

\* The value useMemo gives timeSlots for its dependencies
timeSlotsOf(type, half, splits) ==
    IF type = "shs" THEN timeSlotsSHS
    ELSE IF ~half THEN hourSlotsTESDA
    ELSE IF splits = {} THEN halfSlotsTESDA
    ELSE MergeHalfSlots(halfSlotsTESDA, 1, {parseTimeToMinutes(h) : h \in splits})

weekDaysOf(type) ==
    IF type = "tesda"
    THEN <<"Monday", "Tuesday", "Wednesday", "Thursday", "Friday", "Saturday">>
    ELSE <<"Monday", "Tuesday", "Wednesday", "Thursday", "Friday">>

weekDays == weekDaysOf(scheduleType)

\* 0-based access, as in the source
Slot(i) == timeSlots[i + 1]
NumSlots == Len(timeSlots)

\* Array.prototype.indexOf / includes on a list of days (0-based, -1 when absent)
IndexOfDay(days, d) ==
    LET hits == {i \in 1..Len(days) : days[i] = d}
    IN  IF hits = {} THEN 0 - 1 ELSE (CHOOSE i \in hits : \A j \in hits : i <= j) - 1

Includes(days, d) == \E i \in 1..Len(days) : days[i] = d

\* ------------------------------------------------------------------------
\* Slot index resolver
\* ------------------------------------------------------------------------

\* The least element of a set of indices, -1 when the set is empty
FirstOf(hits) ==
    IF hits = {} THEN 0 - 1 ELSE CHOOSE i \in hits : \A j \in hits : i <= j

\* The 0-based indices of timeSlots, over which each findIndex searches
SlotIndices == 0..(NumSlots - 1)

\* Mutant: no fall-back to the last slot
StartChainNoFallback(exact, containing, next) ==
    IF exact # 0 - 1 THEN exact
    ELSE IF containing # 0 - 1 THEN containing
    ELSE next

\* The chain of returns of indexOfSlotStart over its three findIndex results
StartChain(exact, containing, next) ==
    IF exact # 0 - 1 THEN exact
    ELSE IF containing # 0 - 1 THEN containing
    ELSE IF next = 0 - 1 THEN NumSlots - 1 ELSE next

StartIndexAt(t) ==
    StartChain(
        FirstOf({i \in SlotIndices : parseTimeToMinutes(Slot(i).start) = t}),
        FirstOf({i \in SlotIndices : /\ parseTimeToMinutes(Slot(i).start) <= t
                                     /\ parseTimeToMinutes(Slot(i).end) > t}),
        FirstOf({i \in SlotIndices : parseTimeToMinutes(Slot(i).start) > t}))

indexOfSlotStart(time) == StartIndexAt(parseTimeToMinutes(time))

\* Mutant: the slot before an exact start is taken even for the first slot
EndChainNoFirstGuard(exactEnd, exactStart, containing, nextEnd) ==
    IF exactEnd # 0 - 1 THEN exactEnd
    ELSE IF exactStart # 0 - 1 THEN exactStart - 1
    ELSE IF containing # 0 - 1 THEN containing
    ELSE IF nextEnd = 0 - 1 THEN NumSlots - 1 ELSE nextEnd

\* The chain of returns of indexOfSlotEnd over its four findIndex results
EndChain(exactEnd, exactStart, containing, nextEnd) ==
    IF exactEnd # 0 - 1 THEN exactEnd
    ELSE IF exactStart # 0 - 1
         THEN (IF exactStart > 0 THEN exactStart - 1 ELSE exactStart)
    ELSE IF containing # 0 - 1 THEN containing
    ELSE IF nextEnd = 0 - 1 THEN NumSlots - 1 ELSE nextEnd

\* Mutant: the end is resolved as a start
EndIndexAtAsStart(t) ==
    StartIndexAt(t)

EndIndexAt(t) ==
    EndChain(
        FirstOf({i \in SlotIndices : parseTimeToMinutes(Slot(i).end) = t}),
        FirstOf({i \in SlotIndices : parseTimeToMinutes(Slot(i).start) = t}),
        FirstOf({i \in SlotIndices : /\ parseTimeToMinutes(Slot(i).start) < t
                                     /\ parseTimeToMinutes(Slot(i).end) > t}),
        FirstOf({i \in SlotIndices : parseTimeToMinutes(Slot(i).end) > t}))

indexOfSlotEnd(time) == EndIndexAt(parseTimeToMinutes(time))

arraysEqual(a, b) ==
    /\ Len(a) = Len(b)
    /\ \A i \in 1..Len(a) : a[i] = b[i]

\* Mutant: the slice stops one slot short (slice(startIdx, endIdx))
rangeIntersectsBlockedBreakShortSlice(startIdx, endIdx, day) ==
    LET from == IF startIdx >= 0 THEN startIdx ELSE 0
        to == (IF endIdx <= Len(timeSlots) - 1 THEN endIdx ELSE Len(timeSlots) - 1) - 1
        hasBreak == \E i \in from..to : timeSlots[i + 1].kind = "break"
    IN  IF ~hasBreak THEN FALSE
        ELSE IF scheduleType = "shs" /\ day = "Friday" THEN FALSE
        ELSE TRUE

\* timeSlots.slice(startIdx, endIdx + 1).some(slot => slot.kind === "break"),
\* with Array.prototype.slice's clamping of its bounds
rangeIntersectsBlockedBreak(startIdx, endIdx, day) ==
    LET from == Max2(startIdx, 0)
        to == Min2(endIdx, NumSlots - 1)
        hasBreak == \E i \in from..to : Slot(i).kind = "break"
    IN  IF ~hasBreak THEN FALSE
        ELSE IF scheduleType = "shs" /\ day = "Friday" THEN FALSE
        ELSE TRUE

\* ------------------------------------------------------------------------
\* Rendering planner: what the grid renders in cell (day, slotIndex)
\* ------------------------------------------------------------------------

\* The least element of a set of 1-based positions, 0 when the set is empty
FirstPos(hits) ==
    IF hits = {} THEN 0 ELSE CHOOSE i \in hits : \A j \in hits : i <= j

RECURSIVE ColSpanFrom(_, _)
ColSpanFrom(ev, j) ==
    IF j <= Len(weekDays) /\ Includes(ev.days, weekDays[j])
    THEN 1 + ColSpanFrom(ev, j + 1)
    ELSE 0

NoCell(kind) == [kind |-> kind, id |-> NullIdx, rowSpan |-> 0, colSpan |-> 0]

\* The cell of an event that starts at the row, in the column of 0-based index dayIdx
OriginCell(ev, dayIdx) ==
    IF dayIdx = 0 - 1 THEN NoCell("null")
    ELSE IF dayIdx > 0 /\ Includes(ev.days, weekDays[dayIdx])
    THEN NoCell("null")
    ELSE [kind |-> "origin", id |-> ev.id,
          rowSpan |-> Max2(1, indexOfSlotEnd(ev.end) - indexOfSlotStart(ev.start) + 1),
          colSpan |-> 1 + ColSpanFrom(ev, dayIdx + 2)]

\* The body of weekDays.map of the grid, over its two events.find results
CellOf(day, timeSlot, evStart, covering) ==
    IF timeSlot.kind = "break" /\ ~(scheduleType = "shs" /\ day = "Friday")
    THEN NoCell("break")
    ELSE IF evStart # 0 THEN OriginCell(events[evStart], IndexOfDay(weekDays, day))
    ELSE IF covering # 0 THEN NoCell("null")
    ELSE NoCell("empty")

\* What the grid renders at (day, slotIndex): a break label, the origin block of
\* an event with its spans, nothing (null), or an empty cell with its "+" button
CellPlan(day, slotIndex) ==
    CellOf(day, Slot(slotIndex),
           FirstPos({i \in 1..Len(events) :
                        /\ Includes(events[i].days, day)
                        /\ indexOfSlotStart(events[i].start) = slotIndex}),
           FirstPos({i \in 1..Len(events) :
                        /\ Includes(events[i].days, day)
                        /\ indexOfSlotStart(events[i].start) < slotIndex
                        /\ indexOfSlotEnd(events[i].end) >= slotIndex}))

\* ------------------------------------------------------------------------
\* Persistence helpers
\* ------------------------------------------------------------------------

\* Mutant: the semester is left out of the key
makeStorageKeyNoSemester(cls, year, sem) ==
    "schedulebuilder:" \o (IF cls = "" THEN "global" ELSE cls) \o ":" \o year

\* `schedulebuilder:${cls}:${schoolYear}:${semester}`, cls = selectedClass || "global"
makeStorageKeyOf(cls, year, sem) ==
    "schedulebuilder:" \o (IF cls = "" THEN "global" ELSE cls) \o ":" \o year \o ":" \o sem

makeStorageKey == makeStorageKeyOf(selectedClass, schoolYear, semester)

RemoveAt(s, i) == [j \in 1..(Len(s) - 1) |-> IF j < i THEN s[j] ELSE s[j + 1]]

\* Mutant: the pending timer is not cleared
ClearTimerKeep(ts, ref) == ts

\* window.clearTimeout(autosaveTimer.current) when the ref is set
ClearTimer(ts, ref) == IF ref # 0 /\ ref <= Len(ts) THEN RemoveAt(ts, ref) ELSE ts

\* The closure a timer holds: the saveSchedule of the render that scheduled it,
\* i.e. the key parts, the schedule type and the events of that render.
SaveClosure(evs, cls, year, sem, type) ==
    [key |-> makeStorageKeyOf(cls, year, sem),
     meta |-> [selectedClass |-> cls, scheduleType |-> type, schoolYear |-> year, semester |-> sem],
     events |-> evs]

\* The autosave effect, run after a render in which one of its dependencies
\* (events, key parts, saveSchedule, autosaveEnabled) changed: the cleanup
\* of the previous run, then the body.  status is autosaveStatus as the
\* handler left it.
AutosaveEffect(evs, cls, year, sem, type, enabled, status) ==
    LET cleared == ClearTimer(timers, autosaveTimer)
    IN  IF ~enabled
        THEN /\ timers' = cleared
             /\ autosaveTimer' = 0
             /\ autosaveStatus' = (IF status = "saving" THEN "idle" ELSE status)
        ELSE /\ timers' = Append(cleared, SaveClosure(evs, cls, year, sem, type))
             /\ autosaveTimer' = Len(cleared) + 1
             /\ autosaveStatus' = status

\* Re-run of the effect after an event-set mutation of the current render
AutosaveAfter(evs) ==
    AutosaveEffect(evs, selectedClass, schoolYear, semester, scheduleType,
                   autosaveEnabled, autosaveStatus)

NoAutosave == UNCHANGED <<autosaveStatus, timers, autosaveTimer>>

Op(name, path, outcome) == [name |-> name, path |-> path, outcome |-> outcome]

\* lastOp after a handler that touches neither the event set nor the storage
UiOp == Op("ui", "-", "-")

\* ------------------------------------------------------------------------
\* Drag selection and the create/edit modal
\* ------------------------------------------------------------------------

\* The grid and the toolbar are reachable: no modal overlay is open and no
\* drag is in progress.
Idle == ~modalOpen /\ ~resetConfirmOpen /\ ~isSelecting

\* Array.prototype.slice(ds, de + 1) of weekDays, 0-based ds..de
DaysSlice(ds, de) == SubSeq(weekDays, ds + 1, de + 1)

\* Mutant: the end time is taken from the first slot of the range
openCreateModalWithRangeFirstSlot(days, startIndex, endIndex) ==
    LET s == Min2(startIndex, endIndex) IN
    /\ modalSelectedDays' = (IF Len(days) > 1 THEN days ELSE <<>>)
    /\ modalApplyToAll' = (Len(days) > 1)
    /\ editingId' = NullIdx
    /\ formStartTime' = Slot(s).start
    /\ formEndTime' = Slot(s).end
    /\ formSubject' = ""
    /\ formTeacher' = ""
    /\ formRoom' = ""
    /\ formDay' = (IF Len(days) >= 1 THEN days[1] ELSE NullStr)
    /\ modalOpen' = TRUE

openCreateModalWithRange(days, startIndex, endIndex) ==
    LET s == Min2(startIndex, endIndex)
        e == Max2(startIndex, endIndex)
    IN  /\ modalSelectedDays' = (IF Len(days) > 1 THEN days ELSE <<>>)
        /\ modalApplyToAll' = (Len(days) > 1)
        /\ editingId' = NullIdx
        /\ formStartTime' = Slot(s).start
        /\ formEndTime' = Slot(e).end
        /\ formSubject' = ""
        /\ formTeacher' = ""
        /\ formRoom' = ""
        /\ formDay' = (IF Len(days) >= 1 THEN days[1] ELSE NullStr)
        /\ modalOpen' = TRUE

CloseForm ==
    /\ modalOpen' = FALSE
    /\ editingId' = NullIdx
    /\ formDay' = NullStr
    /\ formStartTime' = NullTime
    /\ formEndTime' = NullTime
    /\ formSubject' = ""
    /\ formTeacher' = ""
    /\ formRoom' = ""
    /\ modalSelectedDays' = <<>>
    /\ modalApplyToAll' = TRUE

\* Cancel button and backdrop of the modal
closeModal ==
    /\ modalOpen
    /\ CloseForm
    /\ lastOp' = UiOp
    /\ UNCHANGED <<utilVars, configVars, keyVars, events, selVars, saveVars, autosaveEnabled,
                   resetConfirmOpen, clock, nextId>>

\* onMouseDown of an empty cell
handleCellMouseDown(day, index) ==
    /\ Idle
    /\ CellPlan(day, index).kind = "empty"
    /\ ~(Slot(index).kind = "break" /\ ~(scheduleType = "shs" /\ day = "Friday"))
    /\ isSelecting' = TRUE
    /\ selStartDay' = day
    /\ selEndDay' = day
    /\ selStartIndex' = index
    /\ selEndIndex' = index
    /\ lastOp' = UiOp
    /\ UNCHANGED <<utilVars, configVars, keyVars, events, formVars, saveVars, autosaveEnabled,
                   resetConfirmOpen, clock, nextId>>

\* onMouseEnter of an empty cell while the button is held
handleCellMouseEnter(day, index) ==
    /\ isSelecting
    /\ CellPlan(day, index).kind = "empty"
    /\ ~(Slot(index).kind = "break" /\ ~(scheduleType = "shs" /\ day = "Friday"))
    /\ selEndIndex' = index
    /\ selEndDay' = day
    /\ lastOp' = UiOp
    /\ UNCHANGED <<utilVars, configVars, keyVars, events, formVars, isSelecting, selStartDay,
                   selStartIndex, saveVars, autosaveEnabled, resetConfirmOpen, clock, nextId>>

\* document mouseup while selecting
finalizeSelection ==
    /\ isSelecting
    /\ IF selStartDay # NullStr /\ selEndDay # NullStr
          /\ selStartIndex # NullIdx /\ selEndIndex # NullIdx
       THEN LET sIdx == Min2(selStartIndex, selEndIndex)
                eIdx == Max2(selStartIndex, selEndIndex)
                startDayIdx == IndexOfDay(weekDays, selStartDay)
                endDayIdx == IndexOfDay(weekDays, selEndDay)
            IN  IF startDayIdx = 0 - 1 \/ endDayIdx = 0 - 1
                THEN openCreateModalWithRange(<<selStartDay>>, sIdx, eIdx)
                ELSE openCreateModalWithRange(
                        DaysSlice(Min2(startDayIdx, endDayIdx), Max2(startDayIdx, endDayIdx)),
                        sIdx, eIdx)
       ELSE UNCHANGED formVars
    /\ isSelecting' = FALSE
    /\ selStartDay' = NullStr
    /\ selEndDay' = NullStr
    /\ selStartIndex' = NullIdx
    /\ selEndIndex' = NullIdx
    /\ lastOp' = UiOp
    /\ UNCHANGED <<utilVars, configVars, keyVars, events, saveVars, autosaveEnabled,
                   resetConfirmOpen, clock, nextId>>

\* onClick of the "+" button of an empty cell
clickAddButton(day, index) ==
    /\ Idle
    /\ CellPlan(day, index).kind = "empty"
    /\ openCreateModalWithRange(<<day>>, index, index)
    /\ lastOp' = UiOp
    /\ UNCHANGED <<utilVars, configVars, keyVars, events, selVars, saveVars, autosaveEnabled,
                   resetConfirmOpen, clock, nextId>>

\* onClick of an event block (or of its edit button) rendered at an origin cell
handleExistingClick(day, slotIndex) ==
    /\ Idle
    /\ CellPlan(day, slotIndex).kind = "origin"
    /\ LET evStart == events[FirstPos({k \in 1..Len(events) :
                                            events[k].id = CellPlan(day, slotIndex).id})]
           slotIdx == indexOfSlotStart(evStart.start)
           i == FirstPos({k \in 1..Len(events) :
                             /\ Includes(events[k].days, day)
                             /\ indexOfSlotStart(events[k].start) = slotIdx})
       IN  /\ i # 0
           /\ editingId' = events[i].id
           /\ formDay' = (IF Len(events[i].days) >= 1 THEN events[i].days[1] ELSE NullStr)
           /\ formStartTime' = events[i].start
           /\ formEndTime' = events[i].end
           /\ formSubject' = events[i].subject
           /\ formTeacher' = events[i].teacher
           /\ formRoom' = events[i].room
    /\ modalSelectedDays' = <<>>
    /\ modalApplyToAll' = TRUE
    /\ modalOpen' = TRUE
    /\ lastOp' = UiOp
    /\ UNCHANGED <<utilVars, configVars, keyVars, events, selVars, saveVars, autosaveEnabled,
                   resetConfirmOpen, clock, nextId>>

FormFrame == UNCHANGED <<utilVars, configVars, keyVars, events, selVars, saveVars, autosaveEnabled,
                         resetConfirmOpen, clock, nextId>>

\* The modal's checkbox, shown when the selection covered several days
setModalApplyToAll(b) ==
    /\ modalOpen
    /\ Len(modalSelectedDays) > 1
    /\ modalApplyToAll' = b
    /\ lastOp' = UiOp
    /\ FormFrame
    /\ UNCHANGED <<modalOpen, editingId, formSubject, formTeacher, formRoom, formDay,
                   formStartTime, formEndTime, modalSelectedDays>>

setFormDay(d) ==
    /\ modalOpen
    /\ Includes(weekDays, d)
    /\ formDay' = d
    /\ lastOp' = UiOp
    /\ FormFrame
    /\ UNCHANGED <<modalOpen, editingId, formSubject, formTeacher, formRoom,
                   formStartTime, formEndTime, modalSelectedDays, modalApplyToAll>>

\* <option disabled> of the two time selects
TimeOptionDisabled(slot) ==
    LET allowedForFridayOnly ==
          scheduleType = "shs"
          /\ (formDay = "Friday"
              \/ (modalSelectedDays # <<>> /\ modalApplyToAll
                  /\ Len(modalSelectedDays) = 1 /\ modalSelectedDays[1] = "Friday"))
    IN  slot.kind = "break" /\ ~allowedForFridayOnly

setFormStartTime(i) ==
    /\ modalOpen
    /\ i \in 0..(NumSlots - 1)
    /\ ~TimeOptionDisabled(Slot(i))
    /\ formStartTime' = Slot(i).start
    /\ lastOp' = UiOp
    /\ FormFrame
    /\ UNCHANGED <<modalOpen, editingId, formSubject, formTeacher, formRoom, formDay,
                   formEndTime, modalSelectedDays, modalApplyToAll>>

setFormEndTime(i) ==
    /\ modalOpen
    /\ i \in 0..(NumSlots - 1)
    /\ ~TimeOptionDisabled(Slot(i))
    /\ formEndTime' = Slot(i).end
    /\ lastOp' = UiOp
    /\ FormFrame
    /\ UNCHANGED <<modalOpen, editingId, formSubject, formTeacher, formRoom, formDay,
                   formStartTime, modalSelectedDays, modalApplyToAll>>

setFormSubject(v) ==
    /\ modalOpen
    /\ formSubject' = v
    /\ lastOp' = UiOp
    /\ FormFrame
    /\ UNCHANGED <<modalOpen, editingId, formTeacher, formRoom, formDay,
                   formStartTime, formEndTime, modalSelectedDays, modalApplyToAll>>

setFormTeacher(v) ==
    /\ modalOpen
    /\ formTeacher' = v
    /\ lastOp' = UiOp
    /\ FormFrame
    /\ UNCHANGED <<modalOpen, editingId, formSubject, formRoom, formDay,
                   formStartTime, formEndTime, modalSelectedDays, modalApplyToAll>>

setFormRoom(v) ==
    /\ modalOpen
    /\ formRoom' = v
    /\ lastOp' = UiOp
    /\ FormFrame
    /\ UNCHANGED <<modalOpen, editingId, formSubject, formTeacher, formDay,
                   formStartTime, formEndTime, modalSelectedDays, modalApplyToAll>>

\* ------------------------------------------------------------------------
\* saveSlot and deleteEvent
\* ------------------------------------------------------------------------

OrTBD(v) == IF v = "" THEN "TBD" ELSE v

NewEvent(id, days, nowISO) ==
    [id |-> id, days |-> days, start |-> formStartTime, end |-> formEndTime,
     subject |-> formSubject, teacher |-> OrTBD(formTeacher), room |-> OrTBD(formRoom),
     createdBy |-> CURRENT_USER, createdAt |-> nowISO,
     modifiedBy |-> "undefined", modifiedAt |-> NoTimestamp, changes |-> <<>>]

\* The days an edit gives the event
\* Mutant: the day select replaces the days of a multi-day event as well
EditDaysAlwaysSelected(ev) ==
    <<IF formDay # NullStr THEN formDay ELSE ev.days[1]>>

EditDays(ev) ==
    IF Len(ev.days) > 1 THEN ev.days
    ELSE <<IF formDay # NullStr THEN formDay ELSE ev.days[1]>>

Change(field, from, to, nowISO) ==
    [field |-> field, from |-> from, to |-> to, by |-> CURRENT_USER, at |-> nowISO]

\* Mutant: a change of the subject is recorded whether or not it changed
EditChangesAlways(ev, nowISO) ==
    <<Change("subject", <<ev.subject>>, <<formSubject>>, nowISO)>>

\* changes.push(...) of the edit path, in the order of the source.  A value
\* of a change record is wrapped in a tuple, so that day lists and strings
\* share one type.
EditChanges(ev, nowISO) ==
    LET newDays == EditDays(ev) IN
       (IF ~arraysEqual(ev.days, newDays) THEN <<Change("days", <<ev.days>>, <<newDays>>, nowISO)>> ELSE <<>>)
    \o (IF ev.start # formStartTime THEN <<Change("start", <<ev.start>>, <<formStartTime>>, nowISO)>> ELSE <<>>)
    \o (IF ev.end # formEndTime THEN <<Change("end", <<ev.end>>, <<formEndTime>>, nowISO)>> ELSE <<>>)
    \o (IF ev.subject # formSubject THEN <<Change("subject", <<ev.subject>>, <<formSubject>>, nowISO)>> ELSE <<>>)
    \o (IF OrTBD(ev.teacher) # OrTBD(formTeacher)
        THEN <<Change("teacher", <<ev.teacher>>, <<OrTBD(formTeacher)>>, nowISO)>> ELSE <<>>)
    \o (IF OrTBD(ev.room) # OrTBD(formRoom)
        THEN <<Change("room", <<ev.room>>, <<OrTBD(formRoom)>>, nowISO)>> ELSE <<>>)

EditBlocked(ev, sIdx, eIdx) ==
    \E i \in 1..Len(EditDays(ev)) : rangeIntersectsBlockedBreak(sIdx, eIdx, EditDays(ev)[i])

\* Mutant: the edit starts a new change list
EditedEventFreshLog(ev, sIdx, eIdx, nowISO) ==
    IF ev.id # editingId THEN ev
    ELSE IF EditBlocked(ev, sIdx, eIdx) THEN ev
    ELSE IF EditChanges(ev, nowISO) = <<>> THEN ev
    ELSE [ev EXCEPT !.days = EditDays(ev),
                    !.start = formStartTime,
                    !.end = formEndTime,
                    !.subject = formSubject,
                    !.teacher = OrTBD(formTeacher),
                    !.room = OrTBD(formRoom),
                    !.modifiedBy = CURRENT_USER,
                    !.modifiedAt = nowISO,
                    !.changes = EditChanges(ev, nowISO)]

\* The body of the prev.map callback of the edit path
EditedEvent(ev, sIdx, eIdx, nowISO) ==
    IF ev.id # editingId THEN ev
    ELSE IF EditBlocked(ev, sIdx, eIdx) THEN ev
    ELSE IF EditChanges(ev, nowISO) = <<>> THEN ev
    ELSE [ev EXCEPT !.days = EditDays(ev),
                    !.start = formStartTime,
                    !.end = formEndTime,
                    !.subject = formSubject,
                    !.teacher = OrTBD(formTeacher),
                    !.room = OrTBD(formRoom),
                    !.modifiedBy = CURRENT_USER,
                    !.modifiedAt = nowISO,
                    !.changes = ev.changes \o EditChanges(ev, nowISO)]

\* events.some(...) of the merged creation path
ExistsMerged(days) ==
    \E i \in 1..Len(events) :
        /\ arraysEqual(events[i].days, days)
        /\ events[i].start = formStartTime
        /\ events[i].end = formEndTime
        /\ events[i].subject = formSubject
        /\ events[i].teacher = OrTBD(formTeacher)
        /\ events[i].room = OrTBD(formRoom)

\* Mutant: the single-day duplicate check finds nothing
ExistsSingleNever(d) == FALSE

\* events.some(...) of the per-day and single-day creation paths
ExistsSingle(d) ==
    \E i \in 1..Len(events) :
        /\ Len(events[i].days) = 1
        /\ events[i].days[1] = d
        /\ events[i].start = formStartTime
        /\ events[i].end = formEndTime
        /\ events[i].subject = formSubject
        /\ events[i].teacher = OrTBD(formTeacher)
        /\ events[i].room = OrTBD(formRoom)

\* Mutant: a blocked day is not skipped
PerDayTargetsNoSkip(sIdx, eIdx) ==
    LET Keep(d) == ~ExistsSingle(d)
    IN  SelectSeq(modalSelectedDays, Keep)

\* The days of modalSelectedDays.forEach that get an event, in order
PerDayTargets(sIdx, eIdx) ==
    LET Keep(d) == ~rangeIntersectsBlockedBreak(sIdx, eIdx, d) /\ ~ExistsSingle(d)
    IN  SelectSeq(modalSelectedDays, Keep)

MergedBlocked(sIdx, eIdx) ==
    \E i \in 1..Len(modalSelectedDays) :
        rangeIntersectsBlockedBreak(sIdx, eIdx, modalSelectedDays[i])

\* An event-set mutation of the model stays within the bounds
CanStamp == clock < MaxClock

saveSlotEdit(sIdx, eIdx) ==
    LET nowISO == clock + 1
        next == [i \in 1..Len(events) |-> EditedEvent(events[i], sIdx, eIdx, nowISO)]
        ti == FirstPos({i \in 1..Len(events) : events[i].id = editingId})
        outcome == IF ti = 0 THEN "missing"
                   ELSE IF EditBlocked(events[ti], sIdx, eIdx) THEN "blocked"
                   ELSE IF next = events THEN "nochange" ELSE "edited"
    IN  /\ outcome = "edited" => CanStamp
        /\ events' = next
        /\ clock' = (IF outcome = "edited" THEN nowISO ELSE clock)
        /\ UNCHANGED nextId
        /\ CloseForm
        /\ AutosaveAfter(next)       \* setEvents got a new array: the effect runs again
        /\ lastOp' = Op("saveSlot", "edit", outcome)

saveSlotPerDay(sIdx, eIdx) ==
    LET nowISO == clock + 1
        targets == PerDayTargets(sIdx, eIdx)
        newEvents == [i \in 1..Len(targets) |-> NewEvent(nextId + i - 1, <<targets[i]>>, nowISO)]
    IN  IF Len(newEvents) > 0
        THEN /\ CanStamp /\ Len(events) + Len(newEvents) <= MaxEvents
             /\ events' = events \o newEvents
             /\ clock' = nowISO
             /\ nextId' = nextId + Len(newEvents)
             /\ CloseForm
             /\ AutosaveAfter(events')
             /\ lastOp' = Op("saveSlot", "perDay", "added")
        ELSE /\ UNCHANGED <<events, clock, nextId>>
             /\ CloseForm
             /\ NoAutosave
             /\ lastOp' = Op("saveSlot", "perDay", "none")

\* Mutant: the "apply to all" flag is ignored and one event per day is made
saveSlotMergedPerDay(sIdx, eIdx) ==
    /\ saveSlotPerDay(sIdx, eIdx)

saveSlotMerged(sIdx, eIdx) ==
    LET nowISO == clock + 1 IN
    IF MergedBlocked(sIdx, eIdx)
    THEN /\ UNCHANGED <<events, clock, nextId, formVars>>
         /\ NoAutosave
         /\ lastOp' = Op("saveSlot", "merged", "blocked")
    ELSE IF ExistsMerged(modalSelectedDays)
    THEN /\ UNCHANGED <<events, clock, nextId>>
         /\ CloseForm
         /\ NoAutosave
         /\ lastOp' = Op("saveSlot", "merged", "duplicate")
    ELSE /\ CanStamp /\ Len(events) < MaxEvents
         /\ events' = Append(events, NewEvent(nextId, modalSelectedDays, nowISO))
         /\ clock' = nowISO
         /\ nextId' = nextId + 1
         /\ CloseForm
         /\ AutosaveAfter(events')
         /\ lastOp' = Op("saveSlot", "merged", "added")

saveSlotSingle(sIdx, eIdx) ==
    LET nowISO == clock + 1
        dayToUse == IF formDay # NullStr THEN formDay ELSE weekDays[1]
    IN  IF rangeIntersectsBlockedBreak(sIdx, eIdx, dayToUse)
        THEN /\ UNCHANGED <<events, clock, nextId, formVars>>
             /\ NoAutosave
             /\ lastOp' = Op("saveSlot", "single", "blocked")
        ELSE IF ExistsSingle(dayToUse)
        THEN /\ UNCHANGED <<events, clock, nextId>>
             /\ CloseForm
             /\ NoAutosave
             /\ lastOp' = Op("saveSlot", "single", "duplicate")
        ELSE /\ CanStamp /\ Len(events) < MaxEvents
             /\ events' = Append(events, NewEvent(nextId, <<dayToUse>>, nowISO))
             /\ clock' = nowISO
             /\ nextId' = nextId + 1
             /\ CloseForm
             /\ AutosaveAfter(events')
             /\ lastOp' = Op("saveSlot", "single", "added")

\* The path saveSlot takes in the current state
SavePath ==
    IF editingId # NullIdx THEN "edit"
    ELSE IF modalSelectedDays # <<>> /\ modalApplyToAll THEN "merged"
    ELSE IF modalSelectedDays # <<>> /\ ~modalApplyToAll THEN "perDay"
    ELSE "single"

\* onClick of the modal's Save button (enabled only with a subject and both times)
saveSlot ==
    /\ modalOpen
    /\ formSubject # "" /\ formStartTime # NullTime /\ formEndTime # NullTime
    /\ LET sIdx == indexOfSlotStart(formStartTime)
           eIdx == indexOfSlotEnd(formEndTime)
       IN  IF sIdx = 0 - 1 \/ eIdx = 0 - 1 \/ eIdx < sIdx
           THEN /\ UNCHANGED <<events, clock, nextId, formVars>>
                /\ NoAutosave
                /\ lastOp' = Op("saveSlot", SavePath, "invalid")
           ELSE CASE SavePath = "edit" -> saveSlotEdit(sIdx, eIdx)
                  [] SavePath = "merged" -> saveSlotMerged(sIdx, eIdx)
                  [] SavePath = "perDay" -> saveSlotPerDay(sIdx, eIdx)
                  [] OTHER -> saveSlotSingle(sIdx, eIdx)
    /\ UNCHANGED <<utilVars, configVars, keyVars, selVars, lastSavedAt, storage, autosaveEnabled,
                   resetConfirmOpen>>

DeleteById(id) ==
    LET Keep(ev) == ev.id # id IN SelectSeq(events, Keep)

\* The delete button of an event block at an origin cell
deleteEventAtCell(day, slotIndex) ==
    /\ Idle
    /\ CellPlan(day, slotIndex).kind = "origin"
    /\ events' = DeleteById(CellPlan(day, slotIndex).id)
    /\ CloseForm
    /\ AutosaveAfter(events')
    /\ lastOp' = Op("deleteEvent", "cell", "-")
    /\ UNCHANGED <<utilVars, configVars, keyVars, selVars, lastSavedAt, storage, autosaveEnabled,
                   resetConfirmOpen, clock, nextId>>

\* The Delete button of the edit modal
deleteEventInModal ==
    /\ modalOpen
    /\ editingId # NullIdx
    /\ events' = DeleteById(editingId)
    /\ CloseForm
    /\ AutosaveAfter(events')
    /\ lastOp' = Op("deleteEvent", "modal", "-")
    /\ UNCHANGED <<utilVars, configVars, keyVars, selVars, lastSavedAt, storage, autosaveEnabled,
                   resetConfirmOpen, clock, nextId>>

\* ------------------------------------------------------------------------
\* Configuration, storage key and persistence handlers
\* ------------------------------------------------------------------------

\* The schedule type select, with the effect that resets the half-hour state
\* and the re-run of the autosave effect (saveSchedule depends on scheduleType)
setScheduleType(v) ==
    /\ Idle
    /\ v # scheduleType
    /\ scheduleType' = v
    /\ halfHourEnabled' = (IF v # "tesda" THEN FALSE ELSE halfHourEnabled)
    /\ splitHours' = (IF v # "tesda" THEN {} ELSE splitHours)
    /\ timeSlots' = timeSlotsOf(v, halfHourEnabled', splitHours')
    /\ AutosaveEffect(events, selectedClass, schoolYear, semester, v, autosaveEnabled, autosaveStatus)
    /\ lastOp' = Op("setScheduleType", "-", "-")
    /\ UNCHANGED <<utilVars, keyVars, events, formVars, selVars, lastSavedAt, storage, autosaveEnabled,
                   resetConfirmOpen, clock, nextId>>

\* hourOptions: the hour starts offered for splitting
hourOptions == {hourSlotsTESDA[i].start : i \in 1..Len(hourSlotsTESDA)}

\* The "Enable 30-minute grid" checkbox, rendered for TESDA only.  Neither
\* it nor the split checkboxes is a dependency of the autosave effect.
setHalfHourEnabled(v) ==
    /\ Idle
    /\ scheduleType = "tesda"
    /\ v # halfHourEnabled
    /\ halfHourEnabled' = v
    /\ timeSlots' = timeSlotsOf(scheduleType, v, splitHours)
    /\ lastOp' = Op("setHalfHourEnabled", "-", "-")
    /\ UNCHANGED <<utilVars, scheduleType, splitHours, keyVars, events, formVars, selVars, saveVars,
                   autosaveEnabled, resetConfirmOpen, clock, nextId>>

\* A checkbox of the split panel, rendered while the half-hour grid is on
toggleSplitHour(hour) ==
    /\ Idle
    /\ scheduleType = "tesda" /\ halfHourEnabled
    /\ hour \in hourOptions
    /\ splitHours' = (IF hour \in splitHours THEN splitHours \ {hour} ELSE splitHours \cup {hour})
    /\ Cardinality(splitHours') <= MaxSplitHours
    /\ timeSlots' = timeSlotsOf(scheduleType, halfHourEnabled, splitHours')
    /\ lastOp' = Op("toggleSplitHour", "-", "-")
    /\ UNCHANGED <<utilVars, scheduleType, halfHourEnabled, keyVars, events, formVars, selVars, saveVars,
                   autosaveEnabled, resetConfirmOpen, clock, nextId>>

\* localStorage values: no item, a string JSON.parse rejects, or the JSON
\* text of a document (kept as the document it parses to).
NoItem == [kind |-> "none"]
Garbage == [kind |-> "garbage"]
JsonDoc(meta, evs, savedAt) == [kind |-> "json", meta |-> meta, events |-> evs, savedAt |-> savedAt]

\* Mutant: a converted event always gets a new id
NormalizeEventNewId(ev, freshId, nowISO) ==
    IF "days" \in DOMAIN ev THEN ev
    ELSE [id |-> freshId,
          days |-> <<IF "day" \in DOMAIN ev THEN ev.day ELSE weekDays[1]>>,
          start |-> ev.start, end |-> ev.end, subject |-> ev.subject,
          teacher |-> ev.teacher, room |-> ev.room,
          createdBy |-> IF "createdBy" \in DOMAIN ev THEN ev.createdBy ELSE "unknown",
          createdAt |-> IF "createdAt" \in DOMAIN ev THEN ev.createdAt ELSE nowISO,
          modifiedBy |-> "undefined", modifiedAt |-> NoTimestamp, changes |-> <<>>]

\* The callback of parsed.events.map in the load effect
NormalizeEvent(ev, freshId, nowISO) ==
    IF "days" \in DOMAIN ev THEN ev
    ELSE [id |-> IF "id" \in DOMAIN ev THEN ev.id ELSE freshId,
          days |-> <<IF "day" \in DOMAIN ev THEN ev.day ELSE weekDays[1]>>,
          start |-> ev.start, end |-> ev.end, subject |-> ev.subject,
          teacher |-> ev.teacher, room |-> ev.room,
          createdBy |-> IF "createdBy" \in DOMAIN ev THEN ev.createdBy ELSE "unknown",
          createdAt |-> IF "createdAt" \in DOMAIN ev THEN ev.createdAt ELSE nowISO,
          modifiedBy |-> "undefined", modifiedAt |-> NoTimestamp, changes |-> <<>>]

\* A null among the elements of parsed.events: reading ev.days of it throws
\* a TypeError inside the try block
JsonNull == [null |-> TRUE]

\* The load effect reaches setEvents: the item parses to a document with an
\* events array and the map callback throws on none of its elements.
\* Otherwise the effect returns early or its catch swallows the error, and
\* the state is left alone.
LoadHits(raw) ==
    /\ raw.kind = "json"
    /\ \A i \in 1..Len(raw.events) : raw.events[i] # JsonNull

\* The callback calls makeId() for the event
NeedsId(ev) == ~("days" \in DOMAIN ev) /\ ~("id" \in DOMAIN ev)

\* The number of calls of makeId() before the callback reaches element i
FreshBefore(evs, i) == Cardinality({j \in 1..(i - 1) : NeedsId(evs[j])})

LoadedEvents(raw) ==
    [i \in 1..Len(raw.events) |->
        NormalizeEvent(raw.events[i], nextId + FreshBefore(raw.events, i), clock)]

\* The load effect followed by the autosave effect, after a render with the
\* key parts cls, year, sem.
KeyChangeEffects(cls, year, sem) ==
    LET raw == storage[makeStorageKeyOf(cls, year, sem)] IN
    IF LoadHits(raw)
    THEN /\ events' = LoadedEvents(raw)
         /\ nextId' = nextId + FreshBefore(raw.events, Len(raw.events) + 1)
         /\ lastSavedAt' = raw.savedAt
         /\ AutosaveEffect(events', cls, year, sem, scheduleType, autosaveEnabled, "saved")
    ELSE /\ UNCHANGED <<events, lastSavedAt, nextId>>
         /\ AutosaveEffect(events, cls, year, sem, scheduleType, autosaveEnabled, autosaveStatus)

setSelectedClass(c) ==
    /\ Idle
    /\ c # selectedClass
    /\ selectedClass' = c
    /\ KeyChangeEffects(c, schoolYear, semester)
    /\ lastOp' = Op("setSelectedClass", "-", IF LoadHits(storage[makeStorageKeyOf(c, schoolYear, semester)]) THEN "loaded" ELSE "kept")
    /\ UNCHANGED <<utilVars, configVars, schoolYear, semester, formVars, selVars, storage, autosaveEnabled,
                   resetConfirmOpen, clock>>

setSemester(v) ==
    /\ Idle
    /\ v # semester
    /\ semester' = v
    /\ KeyChangeEffects(selectedClass, schoolYear, v)
    /\ lastOp' = Op("setSemester", "-", IF LoadHits(storage[makeStorageKeyOf(selectedClass, schoolYear, v)]) THEN "loaded" ELSE "kept")
    /\ UNCHANGED <<utilVars, configVars, selectedClass, schoolYear, formVars, selVars, storage, autosaveEnabled,
                   resetConfirmOpen, clock>>

\* The school year select
setSchoolYear(y) ==
    /\ Idle
    /\ y # schoolYear
    /\ schoolYear' = y
    /\ KeyChangeEffects(selectedClass, y, semester)
    /\ lastOp' = Op("setSchoolYear", "-", IF LoadHits(storage[makeStorageKeyOf(selectedClass, y, semester)]) THEN "loaded" ELSE "kept")
    /\ UNCHANGED <<utilVars, configVars, selectedClass, semester, formVars, selVars, storage, autosaveEnabled,
                   resetConfirmOpen, clock>>

\* Mutant: the status is set without the write
SaveScheduleStatusOnly(c, ok) ==
    /\ UNCHANGED <<storage, lastSavedAt>>
    /\ autosaveStatus' = (IF ok THEN "saved" ELSE "error")

\* Mutant: a write that throws still stamps lastSavedAt
SaveScheduleStampsFailure(c, ok) ==
    IF ok
    THEN /\ storage' = [storage EXCEPT ![c.key] = JsonDoc(c.meta, c.events, clock)]
         /\ lastSavedAt' = clock
         /\ autosaveStatus' = "saved"
    ELSE /\ UNCHANGED storage
         /\ lastSavedAt' = clock
         /\ autosaveStatus' = "error"

\* saveSchedule of the render described by closure c; ok: localStorage.setItem returns
SaveSchedule(c, ok) ==
    IF ok
    THEN /\ storage' = [storage EXCEPT ![c.key] = JsonDoc(c.meta, c.events, clock)]
         /\ lastSavedAt' = clock
         /\ autosaveStatus' = "saved"
    ELSE /\ UNCHANGED <<storage, lastSavedAt>>
         /\ autosaveStatus' = "error"

\* The callback of the autosave timer
autosaveTimerFires(i, ok) ==
    /\ i \in 1..Len(timers)
    /\ SaveSchedule(timers[i], ok)
    /\ timers' = RemoveAt(timers, i)
    /\ autosaveTimer' = 0
    /\ lastOp' = Op("autosaveTimerFires", "-", IF ok THEN "saved" ELSE "error")
    /\ UNCHANGED <<utilVars, configVars, keyVars, events, formVars, selVars, autosaveEnabled,
                   resetConfirmOpen, clock, nextId>>

handleManualSave(ok) ==
    /\ Idle
    /\ autosaveStatus # "saving"
    /\ SaveSchedule(SaveClosure(events, selectedClass, schoolYear, semester, scheduleType), ok)
    /\ lastOp' = Op("handleManualSave", "-", IF ok THEN "saved" ELSE "error")
    /\ UNCHANGED <<utilVars, configVars, keyVars, events, formVars, selVars, timers, autosaveTimer,
                   autosaveEnabled, resetConfirmOpen, clock, nextId>>

openResetConfirm ==
    /\ Idle
    /\ Len(events) # 0
    /\ resetConfirmOpen' = TRUE
    /\ lastOp' = UiOp
    /\ UNCHANGED <<utilVars, configVars, keyVars, events, formVars, selVars, saveVars, autosaveEnabled,
                   clock, nextId>>

cancelReset ==
    /\ resetConfirmOpen
    /\ resetConfirmOpen' = FALSE
    /\ lastOp' = UiOp
    /\ UNCHANGED <<utilVars, configVars, keyVars, events, formVars, selVars, saveVars, autosaveEnabled,
                   clock, nextId>>

doReset ==
    /\ resetConfirmOpen
    /\ storage' = [storage EXCEPT ![makeStorageKey] = NoItem]
    /\ events' = <<>>
    /\ lastSavedAt' = NoTimestamp
    /\ resetConfirmOpen' = FALSE
    /\ AutosaveEffect(<<>>, selectedClass, schoolYear, semester, scheduleType, autosaveEnabled, "idle")
    /\ lastOp' = Op("doReset", "-", "-")
    /\ UNCHANGED <<utilVars, configVars, keyVars, formVars, selVars, autosaveEnabled, clock, nextId>>

\* The autosave toggle switch
setAutosaveEnabled(v) ==
    /\ Idle
    /\ v # autosaveEnabled
    /\ autosaveEnabled' = v
    /\ AutosaveEffect(events, selectedClass, schoolYear, semester, scheduleType, v, autosaveStatus)
    /\ lastOp' = Op("setAutosaveEnabled", "-", "-")
    /\ UNCHANGED <<utilVars, configVars, keyVars, events, formVars, selVars, lastSavedAt, storage,
                   resetConfirmOpen, clock, nextId>>

\* ------------------------------------------------------------------------
\* Initial state and specifications
\* ------------------------------------------------------------------------

DefaultSchoolYear == "2026-2027"
Classes == {"", "grade11-stem1"}
Semesters == {"first", "second"}
\* The default school year and the next one, both among the options of the select
SchoolYears == {DefaultSchoolYear, "2027-2028"}
KeyTriples == Classes \X SchoolYears \X Semesters
StorageKeys == {makeStorageKeyOf(t[1], t[2], t[3]) : t \in KeyTriples}

EmptyStorage == [k \in StorageKeys |-> NoItem]

\* The pointer and the modal's selects are driven over the weekdays up to
\* Friday and over the first slots of the day.
DragDays == {weekDays[i] : i \in (Len(weekDaysOf("shs")) - MaxDragDays + 1)..Len(weekDaysOf("shs"))}
DragIdx == 0..Min2(MaxDragIdx, NumSlots - 1)
Subjects == {"Mathematics"}
Teachers == {""}
Rooms == {""}

\* No function has been called on its own
NoCall == [fn |-> "none"]

\* The builder as it mounts over the localStorage st
Mounted(st) ==
    /\ scheduleType = "shs" /\ halfHourEnabled = FALSE /\ splitHours = {}
    /\ timeSlots = timeSlotsOf("shs", FALSE, {})
    /\ selectedClass = "" /\ schoolYear = DefaultSchoolYear /\ semester = "first"
    /\ events = <<>>
    /\ modalOpen = FALSE /\ editingId = NullIdx
    /\ formSubject = "" /\ formTeacher = "" /\ formRoom = ""
    /\ formDay = NullStr /\ formStartTime = NullTime /\ formEndTime = NullTime
    /\ modalSelectedDays = <<>> /\ modalApplyToAll = TRUE
    /\ isSelecting = FALSE /\ selStartDay = NullStr /\ selEndDay = NullStr
    /\ selStartIndex = NullIdx /\ selEndIndex = NullIdx
    /\ autosaveStatus = "idle" /\ lastSavedAt = NoTimestamp /\ autosaveEnabled = TRUE
    /\ timers = <<SaveClosure(<<>>, "", DefaultSchoolYear, "first", "shs")>>
    /\ autosaveTimer = 1
    /\ storage = st
    /\ resetConfirmOpen = FALSE
    /\ clock = 0 /\ nextId = 1
    /\ lastOp = Op("mount", "-", "-")

InitWith(st) ==
    /\ Mounted(st)
    /\ utilCall = NoCall /\ utilResult = NoCall

Init == InitWith(EmptyStorage)

\* The pointer: drags over the driven cells and clicks on "+" buttons
PointerNext ==
    \/ \E d \in DragDays, i \in DragIdx : handleCellMouseDown(d, i)
    \/ \E d \in DragDays, i \in DragIdx : handleCellMouseEnter(d, i)
    \/ finalizeSelection

ClickNext ==
    \/ \E d \in DragDays, i \in DragIdx : clickAddButton(d, i)

\* The event blocks of the grid
BlockNext ==
    \/ \E d \in DragDays, i \in 0..(NumSlots - 1) : handleExistingClick(d, i)
    \/ \E d \in DragDays, i \in 0..(NumSlots - 1) : deleteEventAtCell(d, i)

\* The modal
ModalNext ==
    \/ \E v \in Subjects : setFormSubject(v)
    \/ saveSlot
    \/ closeModal
    \/ deleteEventInModal

ModalFieldsNext ==
    \/ \E b \in BOOLEAN : setModalApplyToAll(b)
    \/ \E d \in DragDays : setFormDay(d)
    \/ \E i \in DragIdx : setFormStartTime(i)
    \/ \E i \in DragIdx : setFormEndTime(i)
    \/ \E v \in Teachers : setFormTeacher(v)
    \/ \E v \in Rooms : setFormRoom(v)

\* The builder under one schedule type: every handler of the grid and of the modal
Next ==
    \/ PointerNext
    \/ ClickNext
    \/ BlockNext
    \/ ModalNext
    \/ ModalFieldsNext

Spec == Init /\ [][Next]_vars

\* A selection confined to creation: the pointer, the "+" buttons and the
\* create modal; no edit, no delete.
CreateNext ==
    \/ PointerNext
    \/ ClickNext
    \/ \E v \in Subjects : setFormSubject(v)
    \/ saveSlot
    \/ closeModal
    \/ ModalFieldsNext

SpecCreate == Init /\ [][CreateNext]_vars

\* Creation under a changing schedule type: the "+" buttons, drags, the create
\* modal and the schedule type select.
ConfigNext ==
    \/ PointerNext
    \/ ClickNext
    \/ \E v \in Subjects : setFormSubject(v)
    \/ saveSlot
    \/ closeModal
    \/ \E v \in {"shs", "tesda"} : setScheduleType(v)

SpecConfig == Init /\ [][ConfigNext]_vars

\* An event as an earlier session stored it
StoredEvent ==
    [id |-> 0, days |-> <<"Friday">>, start |-> T(7, 45, "AM"), end |-> T(8, 45, "AM"),
     subject |-> "Mathematics", teacher |-> "TBD", room |-> "TBD",
     createdBy |-> CURRENT_USER, createdAt |-> 0,
     modifiedBy |-> "undefined", modifiedAt |-> NoTimestamp, changes |-> <<>>]

SecondSemesterKey == makeStorageKeyOf("", DefaultSchoolYear, "second")

\* localStorage as the component finds it at mount: nothing under the first
\* key, and nothing, an unparseable string or a saved schedule under the
\* key of the second semester.
InitialStorages ==
    { [EmptyStorage EXCEPT ![SecondSemesterKey] = item] :
        item \in { NoItem, Garbage,
                   JsonDoc(SaveClosure(<<>>, "", DefaultSchoolYear, "second", "shs").meta,
                           <<StoredEvent>>, 0) } }

InitPersist == \E st \in InitialStorages : InitWith(st)

\* Editing by "+" and delete in the first row, the semester select, the autosave timer,
\* manual save, reset and the autosave toggle.
PersistNext ==
    \/ \E d \in DragDays : clickAddButton(d, 0)
    \/ \E v \in Subjects : setFormSubject(v)
    \/ saveSlot
    \/ closeModal
    \/ \E d \in DragDays : deleteEventAtCell(d, 0)
    \/ \E v \in Semesters : setSemester(v)
    \/ \E i \in 1..Len(timers), ok \in BOOLEAN : autosaveTimerFires(i, ok)
    \/ \E ok \in BOOLEAN : handleManualSave(ok)
    \/ openResetConfirm
    \/ cancelReset
    \/ doReset
    \/ \E v \in BOOLEAN : setAutosaveEnabled(v)

SpecPersist == InitPersist /\ [][PersistNext]_vars

\* localStorage with a saved schedule under every key of a second semester
FrameStorage ==
    [k \in StorageKeys |->
        LET t == CHOOSE t \in KeyTriples : makeStorageKeyOf(t[1], t[2], t[3]) = k
        IN  IF t[3] = "second"
            THEN JsonDoc(SaveClosure(<<>>, t[1], t[2], t[3], "shs").meta, <<StoredEvent>>, 0)
            ELSE NoItem]

InitFrame == InitWith(FrameStorage)

\* The class select under the default school year, the school year select
\* without a class, the semester select (each loads the stored schedule or
\* keeps the events in memory), the autosave timer, manual save and reset.
FrameNext ==
    \/ schoolYear = DefaultSchoolYear /\ \E c \in Classes : setSelectedClass(c)
    \/ selectedClass = "" /\ \E y \in SchoolYears : setSchoolYear(y)
    \/ \E v \in Semesters : setSemester(v)
    \/ \E i \in 1..Len(timers), ok \in BOOLEAN : autosaveTimerFires(i, ok)
    \/ \E ok \in BOOLEAN : handleManualSave(ok)
    \/ openResetConfirm
    \/ cancelReset
    \/ doReset

SpecFrame == InitFrame /\ [][FrameNext]_vars

\* Saves that succeed or throw, among everything that re-runs the autosave
\* effect: creation and deletion in the first row, the semester select, the
\* schedule type select and the autosave toggle
FailNext ==
    \/ \E d \in DragDays : clickAddButton(d, 0)
    \/ \E v \in Subjects : setFormSubject(v)
    \/ saveSlot
    \/ \E d \in DragDays : deleteEventAtCell(d, 0)
    \/ \E v \in Semesters : setSemester(v)
    \/ \E v \in {"shs", "tesda"} : setScheduleType(v)
    \/ \E i \in 1..Len(timers), ok \in BOOLEAN : autosaveTimerFires(i, ok)
    \/ \E ok \in BOOLEAN : handleManualSave(ok)
    \/ \E v \in BOOLEAN : setAutosaveEnabled(v)

SpecFail == Init /\ [][FailNext]_vars

\* The fields every stored event has, and those an earlier version may
\* have left out
LegacyBase ==
    [start |-> T(7, 45, "AM"), end |-> T(8, 45, "AM"), subject |-> "Mathematics",
     teacher |-> "TBD", room |-> "TBD"]
LegacyOptional ==
    [id |-> 0, createdBy |-> "Registrar", createdAt |-> 0 - 7, day |-> "Friday",
     days |-> <<"Thursday", "Friday">>]

\* The elements of a stored events array: events with any of the optional
\* fields, and null
StoredElements ==
    {LegacyBase @@ [f \in S |-> LegacyOptional[f]] : S \in SUBSET (DOMAIN LegacyOptional)}
    \cup {JsonNull}

\* localStorage at mount: nothing under the first key, and under the key of
\* the second semester nothing, an unparseable string or a record of an
\* earlier version
LegacyStorages ==
    { [EmptyStorage EXCEPT ![SecondSemesterKey] = item] :
        item \in {NoItem, Garbage}
                 \cup {JsonDoc(SaveClosure(<<>>, "", DefaultSchoolYear, "second", "shs").meta, evs, 0 - 7) :
                          evs \in UNION {[1..n -> StoredElements] : n \in 0..MaxStored}} }

InitLoad == \E st \in LegacyStorages : InitWith(st)

\* The selects of the storage key, each change of which runs the load effect
LoadNext ==
    \/ \E c \in Classes : setSelectedClass(c) /\ nextId' <= MaxMadeIds + 1
    \/ \E v \in Semesters : setSemester(v) /\ nextId' <= MaxMadeIds + 1

SpecLoad == InitLoad /\ [][LoadNext]_vars

\* A user who creates classes only while the first semester is chosen, and
\* who switches the semester, saves and toggles autosave at any time
IsolateNext ==
    \/ semester = "first" /\ \E d \in DragDays : clickAddButton(d, 0)
    \/ \E v \in Subjects : setFormSubject(v)
    \/ saveSlot
    \/ closeModal
    \/ \E v \in Semesters : setSemester(v)
    \/ \E i \in 1..Len(timers), ok \in BOOLEAN : autosaveTimerFires(i, ok)
    \/ \E ok \in BOOLEAN : handleManualSave(ok)
    \/ \E v \in BOOLEAN : setAutosaveEnabled(v)

SpecIsolate == Init /\ [][IsolateNext]_vars

\* The timer callback with a write that succeeds
AutosaveWrites == \E i \in 1..Len(timers) : autosaveTimerFires(i, TRUE)

\* As PersistNext, with every storage write succeeding
LiveNext ==
    \/ \E d \in DragDays : clickAddButton(d, 0)
    \/ \E v \in Subjects : setFormSubject(v)
    \/ saveSlot
    \/ closeModal
    \/ \E d \in DragDays : deleteEventAtCell(d, 0)
    \/ \E v \in Semesters : setSemester(v)
    \/ AutosaveWrites
    \/ handleManualSave(TRUE)
    \/ openResetConfirm
    \/ cancelReset
    \/ doReset
    \/ \E v \in BOOLEAN : setAutosaveEnabled(v)

\* A pending timer fires: the page stays open for the debounce interval
SpecLive == InitPersist /\ [][LiveNext]_vars /\ WF_vars(AutosaveWrites)

\* An event an earlier session created and then edited once
EditedStoredEvent ==
    [StoredEvent EXCEPT
        !.subject = "Science", !.modifiedBy = CURRENT_USER, !.modifiedAt = 0,
        !.changes = <<Change("subject", <<"Mathematics">>, <<"Science">>, 0)>>]

\* localStorage at mount: a saved schedule with the edited event under the
\* key of the second semester
EditStorage ==
    [EmptyStorage EXCEPT ![SecondSemesterKey] =
        JsonDoc(SaveClosure(<<>>, "", DefaultSchoolYear, "second", "shs").meta,
                <<EditedStoredEvent>>, 0)]

InitEdit == InitWith(EditStorage)

\* The values the modal's selects are driven over
EditSubjects == {"Mathematics", "Science"}
EditTeachers == {"", "Joy Siocon"}
EditRooms == {"", "Room 1"}

\* The edit modal with all its fields over a stored event: a click on the
\* block, the selects, Save and Cancel, and the semester select that loads
\* the stored schedule.
EditNext ==
    \/ \E d \in DragDays : handleExistingClick(d, 0)
    \/ \E v \in EditSubjects : setFormSubject(v)
    \/ \E v \in EditTeachers : setFormTeacher(v)
    \/ \E v \in EditRooms : setFormRoom(v)
    \/ \E d \in DragDays : setFormDay(d)
    \/ \E i \in 0..1 : setFormEndTime(i)
    \/ saveSlot
    \/ closeModal
    \/ \E v \in Semesters : setSemester(v)

SpecEdit == InitEdit /\ [][EditNext]_vars

\* --- the functions of the time axis, called on their own ---

\* One call is observed in a run
CallIdle == utilCall = NoCall

\* A call of a function leaves the builder as it is
BuilderUnchanged ==
    UNCHANGED <<configVars, keyVars, events, formVars, selVars, saveVars, autosaveEnabled,
                resetConfirmOpen, clock, nextId, lastOp>>

callFormatTime(totalMinutes) ==
    /\ utilCall' = [fn |-> "formatTime", totalMinutes |-> totalMinutes]
    /\ utilResult' = Returned(formatTimeText(totalMinutes))
    /\ BuilderUnchanged

callParseTime(text) ==
    /\ utilCall' = [fn |-> "parseTime", text |-> text]
    /\ utilResult' = parseTimeOfText(text)
    /\ BuilderUnchanged

callParseTimeToMinutes(text) ==
    /\ utilCall' = [fn |-> "parseTimeToMinutes", text |-> text]
    /\ utilResult' = parseTimeToMinutesOfText(text)
    /\ BuilderUnchanged

MinutesPerDay == 24 * 60

\* The integers formatTime is called on
FormatInputs == (0 - MaxDayWraps * MinutesPerDay)..((MaxDayWraps + 1) * MinutesPerDay - 1)

\* The texts the parsers are called on: an hour part, a separator, a minute
\* part, whitespace, a meridiem and a tail, each well-formed or not
HourTexts ==
    {NumText(h) : h \in {0, 1, 7, 9, 12, 13, 24, 99}} \cup {<<"0", "7">>, <<"1", "2", "3">>, <<>>}
MinuteTexts ==
    {PadStart2(NumText(m)) : m \in {0, 5, 30, 59, 60, 99}} \cup {<<"5">>, <<"0", "0", "0">>}
SeparatorTexts == {<<":">>, <<".">>}
SpaceTexts == {<<>>, <<" ">>, <<"\t", " ">>}
MeridiemTexts == {<<"A", "M">>, <<"P", "M">>, <<"a", "m">>, <<"p", "M">>, <<"X", "M">>, <<"A">>, <<>>}
TailTexts == {<<>>, <<" ">>}

TimeTexts ==
    {h \o c \o m \o sp \o ap \o tl :
        h \in HourTexts, c \in SeparatorTexts, m \in MinuteTexts, sp \in SpaceTexts,
        ap \in MeridiemTexts, tl \in TailTexts}

TimeNext ==
    \/ CallIdle /\ \E n \in FormatInputs : callFormatTime(n)
    \/ CallIdle /\ \E text \in TimeTexts : callParseTime(text)
    \/ CallIdle /\ \E text \in TimeTexts : callParseTimeToMinutes(text)

\* formatTime, parseTime and parseTimeToMinutes called on their own
SpecTime == Init /\ [][TimeNext]_vars

\* --- the slot generators, called on their own ---

callGenerateSlots(start, end, stepMinutes) ==
    /\ utilCall' = [fn |-> "generateSlots", start |-> start, end |-> end,
                    stepMinutes |-> stepMinutes]
    /\ utilResult' = Returned(generateSlots(start, end, stepMinutes))
    /\ BuilderUnchanged

callGenerateSlotsWithBreaks(fullStart, fullEnd, stepMinutes, breaks) ==
    /\ utilCall' = [fn |-> "generateSlotsWithBreaks", fullStart |-> fullStart,
                    fullEnd |-> fullEnd, stepMinutes |-> stepMinutes, breaks |-> breaks]
    /\ utilResult' = Returned(generateSlotsWithBreaks(fullStart, fullEnd, stepMinutes, breaks))
    /\ BuilderUnchanged

\* The times and steps generateSlots is called on
SlotTimes ==
    {T(12, 0, "AM"), T(7, 45, "AM"), T(8, 0, "AM"), T(12, 0, "PM"), T(5, 15, "PM"),
     T(7, 0, "PM"), T(11, 59, "PM")}
SlotSteps == {15, 30, 45, 60, 90, 100, 24 * 60, 25 * 60}

\* The windows, steps and breaks generateSlotsWithBreaks is called on: a
\* morning, the SHS day and a window over midnight; breaks at the window
\* start, inside it, overlapping, touching, over the window end and over
\* midnight, with and without a step and a label
Windows ==
    {<<T(8, 0, "AM"), T(12, 0, "PM")>>, <<T(7, 45, "AM"), T(5, 15, "PM")>>,
     <<T(10, 0, "PM"), T(2, 0, "AM")>>}
WindowSteps == {30, 60}
BreakTimes ==
    {<<T(8, 0, "AM"), T(8, 30, "AM")>>, <<T(9, 0, "AM"), T(9, 15, "AM")>>,
     <<T(9, 10, "AM"), T(9, 40, "AM")>>, <<T(9, 15, "AM"), T(9, 45, "AM")>>,
     <<T(11, 30, "AM"), T(12, 30, "PM")>>, <<T(11, 30, "PM"), T(12, 30, "AM")>>}
BreakSteps == {NoStep, 10, 15}
BreakLabels == {"undefined", "", "Recess", "Lunch"}
Breaks ==
    {[start |-> bt[1], end |-> bt[2], stepMinutes |-> st, label |-> lb] :
        bt \in BreakTimes, st \in BreakSteps, lb \in BreakLabels}
BreakLists == UNION {[1..n -> Breaks] : n \in 0..MaxBreaks}

SlotsNext ==
    \/ CallIdle /\ \E start \in SlotTimes, end \in SlotTimes, step \in SlotSteps :
                      callGenerateSlots(start, end, step)
    \/ CallIdle /\ \E w \in Windows, step \in WindowSteps, breaks \in BreakLists :
                      callGenerateSlotsWithBreaks(w[1], w[2], step, breaks)

\* generateSlots and generateSlotsWithBreaks called on their own
SpecSlots == Init /\ [][SlotsNext]_vars

\* --- the slot index resolver, called on its own ---

callIndexOfSlotStart(time) ==
    /\ utilCall' = [fn |-> "indexOfSlotStart", time |-> time]
    /\ utilResult' = Returned(indexOfSlotStart(time))
    /\ BuilderUnchanged

callIndexOfSlotEnd(time) ==
    /\ utilCall' = [fn |-> "indexOfSlotEnd", time |-> time]
    /\ utilResult' = Returned(indexOfSlotEnd(time))
    /\ BuilderUnchanged

\* The times the resolver is called on: every fifth minute of the day
ResolveTimes == {formatTime(5 * k) : k \in 0..(MinutesPerDay \div 5 - 1)}

\* The resolver over the slots of every configuration: either schedule
\* type, the half-hour grid and the split hours
ResolveNext ==
    \/ CallIdle /\ \E v \in {"shs", "tesda"} : setScheduleType(v)
    \/ CallIdle /\ \E v \in BOOLEAN : setHalfHourEnabled(v)
    \/ CallIdle /\ \E hour \in hourOptions : toggleSplitHour(hour)
    \/ CallIdle /\ \E time \in ResolveTimes : callIndexOfSlotStart(time)
    \/ CallIdle /\ \E time \in ResolveTimes : callIndexOfSlotEnd(time)

SpecResolve == Init /\ [][ResolveNext]_vars

\* The configuration of the grid alone: the schedule type select, the
\* half-hour checkbox and the split checkboxes
GridNext ==
    \/ \E v \in {"shs", "tesda"} : setScheduleType(v)
    \/ \E v \in BOOLEAN : setHalfHourEnabled(v)
    \/ \E hour \in hourOptions : toggleSplitHour(hour)

SpecGrid == Init /\ [][GridNext]_vars

\* ------------------------------------------------------------------------
\* Properties
\* ------------------------------------------------------------------------

\* The step is a run of saveSlot
SaveSlotStep == modalOpen /\ lastOp'.name = "saveSlot"

\* The slot range the form resolves to
FormStartIdx == indexOfSlotStart(formStartTime)
FormEndIdx == indexOfSlotEnd(formEndTime)
FormRangeHasBreak == \E i \in FormStartIdx..FormEndIdx : timeSlots[i + 1].kind = "break"
Exempt(d) == scheduleType = "shs" /\ d = "Friday"

\* The days saveSlot targets on the paths that reject as a whole
TargetDays ==
    IF editingId # NullIdx
    THEN LET ev == CHOOSE e \in {events[i] : i \in 1..Len(events)} : e.id = editingId
         IN  IF Len(ev.days) > 1 THEN ev.days ELSE <<formDay>>
    ELSE IF modalSelectedDays # <<>> THEN modalSelectedDays
    ELSE <<formDay>>

\* The descriptive fields of an event, without id and audit fields
Shape(ev) == <<ev.days, ev.start, ev.end, ev.subject, ev.teacher, ev.room>>
FormShape(days) == <<days, formStartTime, formEndTime, formSubject,
                     IF formTeacher = "" THEN "TBD" ELSE formTeacher,
                     IF formRoom = "" THEN "TBD" ELSE formRoom>>
HasShape(sh) == \E i \in 1..Len(events) : Shape(events[i]) = sh

\* events' is events followed by exactly the new events of the given shapes
AddsExactly(shapes) ==
    /\ Len(events') = Len(events) + Len(shapes)
    /\ SubSeq(events', 1, Len(events)) = events
    /\ \A i \in 1..Len(shapes) :
          LET ev == events'[Len(events) + i] IN
          /\ Shape(ev) = shapes[i]
          /\ ev.changes = <<>>
          /\ \A j \in 1..Len(events) : events[j].id # ev.id

\* C1: in saveSlot, on the single-day create path, the merged multi-day
\* create path and the edit path, when a slot of the resolved range
\* [indexOfSlotStart(start), indexOfSlotEnd(end)] is a break and one of the
\* target days is not exempt (Friday under SHS), the event set after the
\* call equals the event set before it.
C1_BreakRejectionLeavesEvents ==
    [][ ( /\ SaveSlotStep
          /\ formSubject # ""
          /\ (editingId # NullIdx \/ modalSelectedDays = <<>> \/ modalApplyToAll)
          /\ FormStartIdx >= 0 /\ FormStartIdx <= FormEndIdx
          /\ FormRangeHasBreak
          /\ \E i \in 1..Len(TargetDays) : ~Exempt(TargetDays[i]) )
        => events' = events ]_vars

\* C1 witness: an edit of an existing event was rejected for a break
C1_Witness ==
    /\ lastOp = Op("saveSlot", "edit", "blocked")
    /\ Len(events) > 0

\* A (day, slot index) cell an event claims
Claims(ev, d, i) ==
    /\ \E k \in 1..Len(ev.days) : ev.days[k] = d
    /\ indexOfSlotStart(ev.start) <= i
    /\ i <= indexOfSlotEnd(ev.end)

\* C2: after any sequence of create operations through the selection and
\* the create modal, no two events claim the same (day, slot index) cell.
C2_NoCellClaimedTwice ==
    \A a, b \in 1..Len(events) :
        a # b =>
            ~\E k \in 1..Len(weekDays), i \in 0..(Len(timeSlots) - 1) :
                Claims(events[a], weekDays[k], i) /\ Claims(events[b], weekDays[k], i)

\* the days of an event are consecutive active weekdays, in weekday order
OnContiguousDays(ev) ==
    /\ Len(ev.days) >= 1
    /\ \E ds \in 1..Len(weekDays) :
          /\ ds + Len(ev.days) - 1 <= Len(weekDays)
          /\ \A k \in 1..Len(ev.days) : ev.days[k] = weekDays[ds + k - 1]

\* another event claims a cell the event at position a claims
OverlapsAnother(a) ==
    \E b \in 1..Len(events) :
        /\ b # a
        /\ \E k \in 1..Len(weekDays), i \in 0..(Len(timeSlots) - 1) :
              Claims(events[a], weekDays[k], i) /\ Claims(events[b], weekDays[k], i)

\* the grid renders the event at position a as one block over its cells
RendersAsOneBlock(a, s, e) ==
    /\ CellPlan(events[a].days[1], s) =
          [kind |-> "origin", id |-> events[a].id, rowSpan |-> e - s + 1,
           colSpan |-> Len(events[a].days)]
    /\ \A k \in 1..Len(events[a].days), i \in s..e :
          (k # 1 \/ i # s) => CellPlan(events[a].days[k], i).kind = "null"

\* C3: for an event made by the creation path that occupies slot indices
\* [s,e] on contiguous active weekdays d0..dk and overlaps no other event,
\* the cell (d0, s) renders the origin block with rowSpan = e-s+1 and
\* colSpan = k+1, and every other cell (d, i) of the event renders nothing:
\* no origin, no empty cell, no break label.
C3_SpanCorrectness ==
    \A a \in 1..Len(events) :
        ( /\ OnContiguousDays(events[a])
          /\ indexOfSlotStart(events[a].start) >= 0
          /\ indexOfSlotStart(events[a].start) <= indexOfSlotEnd(events[a].end)
          /\ ~OverlapsAnother(a) )
        => RendersAsOneBlock(a, indexOfSlotStart(events[a].start),
                             indexOfSlotEnd(events[a].end))

\* a run of consecutive weekdays, in weekday order, of length > 1
IsDayRange(days) ==
    /\ Len(days) > 1
    /\ \E ds \in 1..Len(weekDays) :
          /\ ds + Len(days) - 1 <= Len(weekDays)
          /\ \A k \in 1..Len(days) : days[k] = weekDays[ds + k - 1]

\* C8: saving a selection over more than one day with "apply to all" on
\* adds exactly one event whose days are the whole selected range in weekday
\* order, or nothing at all when a day of the range is blocked by a break or
\* an identical event exists; never more than one event.  (The form holds a
\* subject and a range whose end index is not before its start index.)
C8_MergedFanOut ==
    /\ [](modalSelectedDays # <<>> => IsDayRange(modalSelectedDays))
    /\ [][ ( /\ SaveSlotStep
             /\ formSubject # ""
             /\ editingId = NullIdx
             /\ modalSelectedDays # <<>> /\ modalApplyToAll
             /\ FormStartIdx >= 0 /\ FormStartIdx <= FormEndIdx )
           => IF \/ (FormRangeHasBreak /\ \E i \in 1..Len(modalSelectedDays) : ~Exempt(modalSelectedDays[i]))
                 \/ HasShape(FormShape(modalSelectedDays))
              THEN events' = events
              ELSE AddsExactly(<<FormShape(modalSelectedDays)>>) ]_vars

\* C8 witness: a merged save added one event over several days
C8_Witness ==
    /\ lastOp = Op("saveSlot", "merged", "added")
    /\ Len(events) > 0
    /\ Len(events[Len(events)].days) > 1

\* the days of the selection that get an event in per-day mode
RECURSIVE FreeDays(_)
FreeDays(days) ==
    IF days = <<>> THEN <<>>
    ELSE LET d == Head(days)
             blocked == FormRangeHasBreak /\ ~Exempt(d)
         IN  (IF ~blocked /\ ~HasShape(FormShape(<<d>>)) THEN <<FormShape(<<d>>)>> ELSE <<>>)
             \o FreeDays(Tail(days))

\* C9: saving a selection over more than one day with "apply to all" off
\* adds one single-day event for exactly the days of the range on which the
\* slot range is not blocked by a break and no identical single-day event
\* exists; a blocked day does not prevent the creation for the others.
C9_PerDayFanOut ==
    [][ ( /\ SaveSlotStep
          /\ formSubject # ""
          /\ editingId = NullIdx
          /\ modalSelectedDays # <<>> /\ ~modalApplyToAll
          /\ FormStartIdx >= 0 /\ FormStartIdx <= FormEndIdx )
        => AddsExactly(FreeDays(modalSelectedDays)) ]_vars

\* C9 witness: under SHS a per-day save over a range holding a break gave
\* an event to Friday alone
C9_Witness ==
    /\ lastOp = Op("saveSlot", "perDay", "added")
    /\ scheduleType = "shs"
    /\ Len(events) = 1
    /\ events[1].days = <<"Friday">>
    /\ \E i \in indexOfSlotStart(events[1].start)..indexOfSlotEnd(events[1].end) :
          timeSlots[i + 1].kind = "break"

\* C10: a drag from (d, i) to (d, j) over no blocked break of d, saved with
\* a subject and otherwise unchanged fields, adds exactly one event with
\* days = [d], start = slots[min(i,j)].start and end = slots[max(i,j)].end,
\* whichever way the drag went.
C10_SingleDayDrag ==
    /\ [][ (isSelecting /\ ~isSelecting' /\ selStartDay = selEndDay)
           => /\ modalOpen' /\ editingId' = NullIdx /\ modalSelectedDays' = <<>>
              /\ formDay' = selStartDay
              /\ formStartTime' = timeSlots[Min2(selStartIndex, selEndIndex) + 1].start
              /\ formEndTime' = timeSlots[Max2(selStartIndex, selEndIndex) + 1].end
              /\ formSubject' = "" /\ formTeacher' = "" /\ formRoom' = "" ]_vars
    /\ [][ ( /\ SaveSlotStep
             /\ formSubject # ""
             /\ editingId = NullIdx /\ modalSelectedDays = <<>>
             /\ formTeacher = "" /\ formRoom = ""
             /\ \E s, e \in 0..(Len(timeSlots) - 1) :
                   /\ s <= e
                   /\ formStartTime = timeSlots[s + 1].start
                   /\ formEndTime = timeSlots[e + 1].end
                   /\ CellPlan(formDay, s).kind = "empty"
                   /\ CellPlan(formDay, e).kind = "empty"
                   /\ ~\E i \in s..e : timeSlots[i + 1].kind = "break" /\ ~Exempt(formDay) )
           => AddsExactly(<<FormShape(<<formDay>>)>>) ]_vars

\* C10 witness: a single-day save added an event over several slots
C10_Witness ==
    /\ lastOp = Op("saveSlot", "single", "added")
    /\ Len(events) > 0
    /\ Len(events[Len(events)].days) = 1
    /\ indexOfSlotStart(events[Len(events)].start) < indexOfSlotEnd(events[Len(events)].end)

\* The step is a change of the storage key
KeyChangeStep == lastOp'.name \in {"setSelectedClass", "setSemester"}

\* C4: when the storage key (class, school year, semester) changes, the
\* event set becomes the event list stored under the new key, and becomes
\* empty when the new key has no record or its data cannot be parsed.
C4_KeyChangeSwapsEvents ==
    [][ KeyChangeStep
        => events' = (IF storage[makeStorageKey'].kind = "json"
                      THEN storage[makeStorageKey'].events
                      ELSE <<>>) ]_vars

\* no events in memory and no record under the current key
ResetClean == events = <<>> /\ storage[makeStorageKey] = NoItem

\* C5: after doReset the event set is empty and storage holds no record
\* under the current key, and an autosave timer that fires after the reset
\* does not create a record under that key again.
C5_ResetStaysClean ==
    [][ /\ (lastOp'.name = "doReset" => ResetClean')
        /\ ((lastOp.name = "doReset" /\ lastOp'.name = "autosaveTimerFires") => ResetClean')
      ]_vars

\* C6: debounced autosave coalesces, the last write wins: at most one timer
\* is pending at any time, and the pending timer holds the current event set
\* and key; with autosave on, every change of the event set leaves exactly
\* one pending timer, the new one; a firing timer leaves none pending and,
\* when the write succeeds, writes the event set as it is after the last
\* change under the current key and touches no other key.
C6_DebounceCoalesces ==
    /\ [](Len(timers) <= 1 /\ autosaveTimer = Len(timers))
    /\ [](autosaveTimer # 0
            => timers[1].events = events /\ timers[1].key = makeStorageKey)
    /\ [][ (autosaveEnabled /\ events' # events)
           => /\ Len(timers') = 1 /\ autosaveTimer' = 1
              /\ timers'[1].events = events' ]_vars
    /\ [][ lastOp'.name = "autosaveTimerFires"
           => /\ timers' = <<>> /\ autosaveTimer' = 0
              /\ lastOp'.outcome = "saved"
                   => /\ storage'[makeStorageKey].kind = "json"
                      /\ storage'[makeStorageKey].events = events
                      /\ \A k \in StorageKeys :
                            k # makeStorageKey => storage'[k] = storage[k] ]_vars

\* C6 witness: two creations in a row with no write in between, and one
\* pending timer that holds both events
C6_Witness ==
    /\ lastOp = Op("saveSlot", "single", "added")
    /\ Len(events) = 2
    /\ events[1].createdAt = 1 /\ events[2].createdAt = 2
    /\ storage[makeStorageKey] = NoItem
    /\ autosaveEnabled
    /\ Len(timers) = 1 /\ timers[1].events = events

\* the last handler changed the event set, the storage key or the toggle
Unsettled ==
    \/ lastOp.name \in {"deleteEvent", "doReset", "setSelectedClass", "setSemester",
                        "setAutosaveEnabled", "setScheduleType"}
    \/ lastOp.name = "saveSlot" /\ lastOp.outcome \in {"added", "edited"}

\* the record under the current key holds the in-memory events, status saved
Synced ==
    /\ storage[makeStorageKey].kind = "json"
    /\ storage[makeStorageKey].events = events
    /\ autosaveStatus = "saved"

\* C7: with autosave enabled and writes that succeed, if from some point on
\* there is no further mutation, key change or toggle, then eventually the
\* record stored under the current key has the in-memory events and the
\* status indicator is "saved" (and this stays so).
C7_AutosaveLiveness == <>[](autosaveEnabled /\ ~Unsettled) => <>[]Synced

\* C7 witness: the timer has written the events of a creation
C7_Witness ==
    /\ lastOp = Op("autosaveTimerFires", "-", "saved")
    /\ autosaveEnabled
    /\ Len(events) > 0
    /\ Synced

\* The step is a run of saveSlot on a creation path, past its guards
CreateStep ==
    /\ SaveSlotStep
    /\ formSubject # ""
    /\ editingId = NullIdx
    /\ FormStartIdx >= 0 /\ FormStartIdx <= FormEndIdx

\* The day lists of the candidates of the create
CandidateDays ==
    IF modalSelectedDays # <<>> /\ modalApplyToAll THEN {modalSelectedDays}
    ELSE IF modalSelectedDays # <<>>
    THEN {<<modalSelectedDays[i]>> : i \in 1..Len(modalSelectedDays)}
    ELSE {<<IF formDay # NullStr THEN formDay ELSE weekDays[1]>>}

\* How many events of a list have the given descriptive fields
CountShape(evs, sh) == Cardinality({i \in 1..Len(evs) : Shape(evs[i]) = sh})

\* C11: duplicate suppression makes creation idempotent: a create whose
\* candidate (days, start, end, subject, teacher-or-TBD, room-or-TBD) is
\* equal to an event of the set adds no second event of these fields, and
\* when every candidate of the create is in the set the event set stays as
\* it is; so the same create done twice gives the set of doing it once.
C11_DuplicateCreateIsNoOp ==
    [][ CreateStep
        => /\ \A days \in CandidateDays :
                 HasShape(FormShape(days))
                 => CountShape(events', FormShape(days)) = CountShape(events, FormShape(days))
           /\ (\A days \in CandidateDays : HasShape(FormShape(days)))
                 => events' = events ]_vars

\* C11 witness: a single-day create met its duplicate, the event an earlier
\* create made with no teacher chosen (teacher "TBD")
C11_Witness ==
    /\ lastOp = Op("saveSlot", "single", "duplicate")
    /\ Len(events) = 1
    /\ events[1].teacher = "TBD" /\ events[1].createdAt = 1

\* The event the modal edits (editingId names an event of the set)
EditTargetPos == FirstPos({i \in 1..Len(events) : events[i].id = editingId})

\* The form holds the values of the event: its day (the modal has one day
\* select; the days of a multi-day event are kept), times, subject,
\* teacher and room
FormEqualsEvent(ev) ==
    /\ Len(ev.days) = 1 => formDay = ev.days[1]
    /\ formStartTime = ev.start /\ formEndTime = ev.end
    /\ formSubject = ev.subject
    /\ formTeacher = ev.teacher /\ formRoom = ev.room

\* C12: audit idempotence: saving an edit in which days, start, end,
\* subject, teacher and room all equal the current values of the event
\* leaves the event set unchanged: nothing is appended to changes and
\* modifiedBy/modifiedAt stay as they were.
C12_AuditIdempotence ==
    [][ ( /\ SaveSlotStep
          /\ editingId # NullIdx
          /\ EditTargetPos # 0
          /\ FormEqualsEvent(events[EditTargetPos]) )
        => events' = events ]_vars

\* C12 witness: an edit of an event with a change history was saved with
\* nothing changed
C12_Witness ==
    /\ lastOp = Op("saveSlot", "edit", "nochange")
    /\ \E i \in 1..Len(events) : Len(events[i].changes) > 0

\* The fields an edit logs
AuditFields == {"days", "start", "end", "subject", "teacher", "room"}

\* The change records an edit appended to the event
Appended(before, after) ==
    SubSeq(after.changes, Len(before.changes) + 1, Len(after.changes))

\* The event after an accepted edit, against the event before it
EditLogged(before, after, now) ==
    /\ after.id = before.id
    /\ after.createdBy = before.createdBy /\ after.createdAt = before.createdAt
    /\ after.modifiedBy = CURRENT_USER /\ after.modifiedAt = now
    /\ Len(after.changes) >= Len(before.changes)
    /\ SubSeq(after.changes, 1, Len(before.changes)) = before.changes
    /\ \A f \in AuditFields :
          Cardinality({k \in 1..Len(Appended(before, after)) :
                          Appended(before, after)[k].field = f})
            = (IF after[f] # before[f] THEN 1 ELSE 0)
    /\ \A k \in 1..Len(Appended(before, after)) :
          LET c == Appended(before, after)[k] IN
          /\ c.field \in AuditFields
          /\ c.from = <<before[c.field]>> /\ c.to = <<after[c.field]>>
          /\ c.by = CURRENT_USER /\ c.at = now

\* C13: on every accepted edit of an event, exactly one change record is
\* appended for each of days, start, end, subject, teacher, room whose value
\* differs from the event before the edit, with from the value before and
\* to the value after; the earlier changes stay as an unmodified prefix;
\* modifiedBy and modifiedAt are set; id, createdBy and createdAt stay; the
\* other events are untouched.
C13_EditAppendsChangeRecords ==
    [][ ( /\ SaveSlotStep
          /\ editingId # NullIdx
          /\ EditTargetPos # 0
          /\ events' # events )
        => /\ Len(events') = Len(events)
           /\ \A i \in 1..Len(events) : i # EditTargetPos => events'[i] = events[i]
           /\ EditLogged(events[EditTargetPos], events'[EditTargetPos], clock') ]_vars

\* C13 witness: an edit changed the subject and the teacher of an event
\* that already had a change record
C13_Witness ==
    /\ lastOp = Op("saveSlot", "edit", "edited")
    /\ \E i \in 1..Len(events) :
          /\ Len(events[i].changes) = 3
          /\ events[i].changes[1].at < events[i].changes[2].at
          /\ events[i].changes[2].field = "subject"
          /\ events[i].changes[3].field = "teacher"

\* C18: round trip: for every integer m in [0,1440),
\* parseTime(formatTime(m)) = m; and for every integer n, negative or
\* >= 1440, formatTime(n) returns (it never fails) what it returns for
\* n mod 1440, a time in [0,1440).
C18_FormatParseRoundTrip ==
    utilCall.fn = "formatTime"
    => /\ ~utilResult.threw
       /\ utilResult.value = formatTimeText(utilCall.totalMinutes % MinutesPerDay)
       /\ ~parseTimeOfText(utilResult.value).threw
       /\ parseTimeOfText(utilResult.value).value \in 0..(MinutesPerDay - 1)
       /\ parseTimeOfText(utilResult.value).value = utilCall.totalMinutes % MinutesPerDay

\* C18 witness: formatTime(-1) returned "11:59 PM"
C18_Witness ==
    /\ utilCall = [fn |-> "formatTime", totalMinutes |-> 0 - 1]
    /\ utilResult = Returned(<<"1", "1", ":", "5", "9", " ", "P", "M">>)

\* The text is H:MM AM|PM with an hour in 1..12 and minutes in 00..59
\* (meridiem in either case, whitespace before it optional)
InTimeFormat(text) ==
    /\ MatchTime(text) # NoMatch
    /\ MatchTime(text).h \in 1..12
    /\ MatchTime(text).m \in 0..59

\* C19: parseTime and parseTimeToMinutes fail with an invalid-format error
\* on every text that is not H:MM AM|PM with hour in 1..12 and minutes in
\* 00..59; so a text with hour 0 or 13..99, or with minutes 60..99, is
\* rejected and not converted to a number of minutes.
C19_InvalidTimesRejected ==
    (utilCall.fn \in {"parseTime", "parseTimeToMinutes"} /\ ~InTimeFormat(utilCall.text))
    => (utilResult.threw /\ utilResult.error = "Invalid time format")

\* C17: generateSlots(start, end, step) with step >= 1, S = minutes(start)
\* and E = minutes(end), plus 1440 when minutes(end) <= S, returns exactly
\* floor((E - S) / step) slots; slot i (from 0) is [S + i*step,
\* S + (i+1)*step) formatted modulo 1440 and tagged teaching, so every slot
\* is step minutes wide and a trailing remainder shorter than step gives no
\* slot.
C17_GenerateSlotsExact ==
    (utilCall.fn = "generateSlots" /\ utilCall.stepMinutes >= 1)
    => LET S == parseTime(utilCall.start)
           E == IF parseTime(utilCall.end) <= S
                THEN parseTime(utilCall.end) + MinutesPerDay
                ELSE parseTime(utilCall.end)
           step == utilCall.stepMinutes
           slots == utilResult.value
       IN  /\ ~utilResult.threw
           /\ Len(slots) = (E - S) \div step
           /\ E - (S + Len(slots) * step) \in 0..(step - 1)
           /\ \A i \in 1..Len(slots) :
                 /\ TimeText(slots[i].start) = formatTimeText((S + (i - 1) * step) % MinutesPerDay)
                 /\ TimeText(slots[i].end) = formatTimeText((S + i * step) % MinutesPerDay)
                 /\ slots[i].kind = "teaching"
                 /\ (parseTime(slots[i].end) - parseTime(slots[i].start)) % MinutesPerDay
                      = step % MinutesPerDay

\* C17 witness: a window over midnight (7:00 PM to 7:45 AM) cut in steps of
\* 100 minutes: 7 slots, the last one ending at 6:40 AM, 65 minutes left over
C17_Witness ==
    /\ utilCall = [fn |-> "generateSlots", start |-> T(7, 0, "PM"), end |-> T(7, 45, "AM"),
                   stepMinutes |-> 100]
    /\ Len(utilResult.value) = 7
    /\ utilResult.value[7].end = T(6, 40, "AM")

\* --- generateSlotsWithBreaks: the call observed and what it returned ---

BreaksCall == utilCall.fn = "generateSlotsWithBreaks"
WinS == parseTime(utilCall.fullStart)
WinE == NormalizedEnd(utilCall.fullStart, utilCall.fullEnd)
CallRanges == BreakRanges(utilCall.fullStart, utilCall.fullEnd, utilCall.breaks)
CallMerged == MergedBreaks(utilCall.fullStart, utilCall.fullEnd, utilCall.breaks)
OutSlots == utilResult.value

\* The default step and the step of every in-window break are positive
PositiveSteps ==
    /\ utilCall.stepMinutes >= 1
    /\ \A i \in 1..Len(CallRanges) : CallRanges[i][3] >= 1

\* The minute of the window a slot starts at and the minute it ends at
AbsStart(slot) ==
    IF parseTime(slot.start) < WinS THEN parseTime(slot.start) + MinutesPerDay
    ELSE parseTime(slot.start)
AbsEnd(slot) ==
    IF parseTime(slot.end) <= WinS THEN parseTime(slot.end) + MinutesPerDay
    ELSE parseTime(slot.end)
Width(slot) == AbsEnd(slot) - AbsStart(slot)

\* The merged range of the call that holds minute x (0 when none)
MergedAt(x) ==
    FirstPos({i \in 1..Len(CallMerged) : CallMerged[i][1] <= x /\ x < CallMerged[i][2]})

\* The step in force at minute x
StepAt(x) == IF MergedAt(x) # 0 THEN CallMerged[MergedAt(x)][3] ELSE utilCall.stepMinutes

\* C14: slot coverage of generateSlotsWithBreaks, for positive steps and at
\* least one break inside the window: the first slot starts at the window
\* start, every slot ends where the next one starts, no two slots overlap,
\* and the slots cover the window less a trailing partial step: every slot
\* is as wide as its step (none is emitted shorter), the last slot ends at
\* or before the window end and less than one step is left after it.
C14_SlotCoverage ==
    (BreaksCall /\ PositiveSteps /\ Len(CallRanges) >= 1)
    => /\ Len(OutSlots) >= 1
       /\ AbsStart(OutSlots[1]) = WinS
       /\ \A k \in 1..(Len(OutSlots) - 1) : OutSlots[k].end = OutSlots[k + 1].start
       /\ \A k \in 1..Len(OutSlots) : AbsStart(OutSlots[k]) < AbsEnd(OutSlots[k])
       /\ \A k \in 1..Len(OutSlots) : Width(OutSlots[k]) = StepAt(AbsStart(OutSlots[k]))
       /\ AbsEnd(OutSlots[Len(OutSlots)]) <= WinE
       /\ AbsEnd(OutSlots[Len(OutSlots)]) < WinE
            => WinE - AbsEnd(OutSlots[Len(OutSlots)]) < StepAt(AbsEnd(OutSlots[Len(OutSlots)]))

\* The minutes of a break of the call, as clock times: from its start to its
\* end, the end on the next day when it is not after the start
BreakFrom(b) == parseTime(b.start)
BreakTo(b) ==
    IF parseTime(b.end) <= parseTime(b.start) THEN parseTime(b.end) + MinutesPerDay
    ELSE parseTime(b.end)

\* Minute x of the window (counted from the midnight before the window
\* start) falls in break b, on the day of the window start or on the next
InBreak(b, x) ==
    \/ BreakFrom(b) <= x /\ x < BreakTo(b)
    \/ BreakFrom(b) + MinutesPerDay <= x /\ x < BreakTo(b) + MinutesPerDay

IsBreakMinute(x) == \E i \in 1..Len(utilCall.breaks) : InBreak(utilCall.breaks[i], x)

\* The breaks of the call joined to minute x by break minutes without a gap
\* (the merged break range of x)
RunLow(x) ==
    CHOOSE lo \in WinS..x :
        /\ \A y \in lo..x : IsBreakMinute(y)
        /\ lo = WinS \/ ~IsBreakMinute(lo - 1)
RunHigh(x) ==
    CHOOSE hi \in x..(WinE - 1) :
        /\ \A y \in x..hi : IsBreakMinute(y)
        /\ hi = WinE - 1 \/ ~IsBreakMinute(hi + 1)
RunBreaks(x) ==
    {i \in 1..Len(utilCall.breaks) :
        \E y \in RunLow(x)..RunHigh(x) : InBreak(utilCall.breaks[i], y)}

\* The step of a break: the one given, or its own length
StepOfBreak(b) == IF b.stepMinutes = NoStep THEN BreakTo(b) - BreakFrom(b) ELSE b.stepMinutes

LeastOf(S) == CHOOSE v \in S : \A w \in S : v <= w

\* The step of the merged break range of x: the least step of its breaks
RunStep(x) == LeastOf({StepOfBreak(utilCall.breaks[i]) : i \in RunBreaks(x)})

NonEmptyLabel(l) == l # "undefined" /\ l # ""

\* The label of the merged break range of x: the first non-empty label of
\* its breaks in the order of their starts, "Break" when there is none
RunLabel(x) ==
    LET named == {i \in RunBreaks(x) : NonEmptyLabel(utilCall.breaks[i].label)}
        first == CHOOSE i \in named :
                    \A j \in named :
                        \/ BreakFrom(utilCall.breaks[i]) < BreakFrom(utilCall.breaks[j])
                        \/ /\ BreakFrom(utilCall.breaks[i]) = BreakFrom(utilCall.breaks[j])
                           /\ i <= j
    IN  IF named = {} THEN "Break" ELSE utilCall.breaks[first].label

\* C15: generateSlotsWithBreaks partitions the window by the merged break
\* ranges: every slot either lies inside one merged break range, is as wide
\* as the step of that range and is a break slot with the label of the
\* range ("Break" when it has none), or lies outside every break, is as wide
\* as the default step and is a teaching slot; so every minute of every
\* break that falls in the window (also of a break that starts at the
\* window start or off the teaching grid) is covered by a break slot.
C15_BreakPartition ==
    (BreaksCall /\ PositiveSteps)
    => /\ \A k \in 1..Len(OutSlots) :
             LET slot == OutSlots[k]
                 minutes == AbsStart(slot)..(AbsEnd(slot) - 1)
             IN  \/ /\ \A x \in minutes : IsBreakMinute(x)
                    /\ slot.kind = "break"
                    /\ Width(slot) = RunStep(AbsStart(slot))
                    /\ slot.label = RunLabel(AbsStart(slot))
                 \/ /\ \A x \in minutes : ~IsBreakMinute(x)
                    /\ slot.kind = "teaching"
                    /\ Width(slot) = utilCall.stepMinutes
       /\ \A x \in WinS..(WinE - 1) :
             IsBreakMinute(x)
             => \E k \in 1..Len(OutSlots) :
                   /\ OutSlots[k].kind = "break"
                   /\ AbsStart(OutSlots[k]) <= x /\ x < AbsEnd(OutSlots[k])

\* Two in-window break ranges of the call overlap or touch
Touch(i, j) ==
    /\ CallRanges[i][1] <= CallRanges[j][2]
    /\ CallRanges[j][1] <= CallRanges[i][2]

\* The in-window break ranges joined to those of the set by overlap or touch
RECURSIVE Joined(_)
Joined(set) ==
    LET more == {j \in 1..Len(CallRanges) : \E i \in set : Touch(i, j)}
    IN  IF more \subseteq set THEN set ELSE Joined(set \cup more)

\* The first member of a group of in-window break ranges with a non-empty
\* label, in the order of their starts (0 when none has one)
FirstNamed(group) ==
    LET named == {i \in group : NonEmptyLabel(CallRanges[i][4])}
    IN  IF named = {} THEN 0
        ELSE CHOOSE i \in named :
                \A j \in named :
                    \/ CallRanges[i][1] < CallRanges[j][1]
                    \/ CallRanges[i][1] = CallRanges[j][1] /\ i <= j

\* The merged range m is the merge of the group of in-window break ranges
MergeOf(m, group) ==
    /\ m[1] = LeastOf({CallRanges[i][1] : i \in group})
    /\ \E i \in group : m[2] = CallRanges[i][2]
    /\ \A i \in group : CallRanges[i][2] <= m[2]
    /\ m[3] = LeastOf({CallRanges[i][3] : i \in group})
    /\ IF FirstNamed(group) # 0 THEN m[4] = CallRanges[FirstNamed(group)][4]
       ELSE ~NonEmptyLabel(m[4])

StartsAt(t) == {i \in 0..(Len(timeSlots) - 1) : parseTimeToMinutes(timeSlots[i + 1].start) = t}
Holds(t) ==
    {i \in 0..(Len(timeSlots) - 1) :
        /\ parseTimeToMinutes(timeSlots[i + 1].start) <= t
        /\ t < parseTimeToMinutes(timeSlots[i + 1].end)}
StartsAfter(t) == {i \in 0..(Len(timeSlots) - 1) : parseTimeToMinutes(timeSlots[i + 1].start) > t}

\* C20: indexOfSlotStart(t) on a non-empty slot sequence returns the index
\* of the slot whose start equals t if there is one; otherwise the index of
\* the first slot with start <= t < end; otherwise the index of the first
\* slot that starts after t; otherwise the last index.  The result is
\* always an index in [0, length - 1].
C20_IndexOfSlotStart ==
    (utilCall.fn = "indexOfSlotStart" /\ Len(timeSlots) > 0)
    => LET t == parseTimeToMinutes(utilCall.time)
           r == utilResult.value
       IN  /\ ~utilResult.threw
           /\ r \in 0..(Len(timeSlots) - 1)
           /\ IF StartsAt(t) # {} THEN r \in StartsAt(t) /\ \A i \in StartsAt(t) : r <= i
              ELSE IF Holds(t) # {} THEN r \in Holds(t) /\ \A i \in Holds(t) : r <= i
              ELSE IF StartsAfter(t) # {}
                   THEN r \in StartsAfter(t) /\ \A i \in StartsAfter(t) : r <= i
              ELSE r = Len(timeSlots) - 1

\* C20 witness: under SHS, 9:50 AM is inside the recess slot (index 2)
\* that no slot starts at
C20_Witness ==
    /\ scheduleType = "shs"
    /\ utilCall = [fn |-> "indexOfSlotStart", time |-> T(9, 50, "AM")]
    /\ utilResult = Returned(2)
    /\ timeSlots[3].kind = "break"

\* The 0-based slot indices whose end relates to minute t
EndsAt(t) == {i \in 0..(Len(timeSlots) - 1) : parseTimeToMinutes(timeSlots[i + 1].end) = t}
StrictlyHolds(t) ==
    {i \in 0..(Len(timeSlots) - 1) :
        /\ parseTimeToMinutes(timeSlots[i + 1].start) < t
        /\ t < parseTimeToMinutes(timeSlots[i + 1].end)}
EndsAfter(t) == {i \in 0..(Len(timeSlots) - 1) : parseTimeToMinutes(timeSlots[i + 1].end) > t}

\* r is the first index of the set S
IsFirstOf(r, S) == r \in S /\ \A i \in S : r <= i

\* C21: indexOfSlotEnd(t) on a non-empty slot sequence returns the index of
\* the slot whose end equals t if there is one; otherwise, if t is the start
\* of slot k, k - 1 when k > 0 and 0 when k = 0; otherwise the index of the
\* slot with start < t < end; otherwise the first slot whose end is after
\* t; otherwise the last index.  The result is always an index in
\* [0, length - 1].
C21_IndexOfSlotEnd ==
    (utilCall.fn = "indexOfSlotEnd" /\ Len(timeSlots) > 0)
    => LET t == parseTimeToMinutes(utilCall.time)
           r == utilResult.value
       IN  /\ ~utilResult.threw
           /\ r \in 0..(Len(timeSlots) - 1)
           /\ IF EndsAt(t) # {} THEN IsFirstOf(r, EndsAt(t))
              ELSE IF StartsAt(t) # {}
                   THEN \E k \in StartsAt(t) :
                           /\ IsFirstOf(k, StartsAt(t))
                           /\ r = (IF k > 0 THEN k - 1 ELSE 0)
              ELSE IF StrictlyHolds(t) # {} THEN IsFirstOf(r, StrictlyHolds(t))
              ELSE IF EndsAfter(t) # {} THEN IsFirstOf(r, EndsAfter(t))
              ELSE r = Len(timeSlots) - 1

\* C21 witness: under SHS, 7:45 AM is the start of the first slot and the
\* end of none, and resolves to index 0
C21_Witness ==
    /\ scheduleType = "shs"
    /\ utilCall = [fn |-> "indexOfSlotEnd", time |-> T(7, 45, "AM")]
    /\ utilResult = Returned(0)
    /\ timeSlots[1].start = T(7, 45, "AM")

\* C29: for the slot sequence of every configuration (SHS with breaks, TESDA
\* hourly, TESDA half-hour with any split hours) and all indices
\* 0 <= s <= e < length, indexOfSlotStart(slots[s].start) = s and
\* indexOfSlotEnd(slots[e].end) = e: a selection over [s, e] resolves back
\* to rows s..e and passes the eIdx >= sIdx check of saveSlot.
C29_ResolverRoundTrip ==
    \A s \in 0..(Len(timeSlots) - 1) : \A e \in s..(Len(timeSlots) - 1) :
        /\ indexOfSlotStart(timeSlots[s + 1].start) = s
        /\ indexOfSlotEnd(timeSlots[e + 1].end) = e
        /\ indexOfSlotEnd(timeSlots[e + 1].end) >= indexOfSlotStart(timeSlots[s + 1].start)

\* C29 witness: a half-hour grid with the hours from 10:00 AM and 2:00 PM
\* split, so that hour slots and half-hour slots alternate, and the slot
\* 10:30-11:00 AM resolving to its own row
C29_Witness ==
    /\ scheduleType = "tesda" /\ halfHourEnabled
    /\ splitHours = {T(10, 0, "AM"), T(2, 0, "PM")}
    /\ Len(timeSlots) = 13
    /\ timeSlots[4] = [start |-> T(10, 30, "AM"), end |-> T(11, 0, "AM"),
                       kind |-> "teaching", label |-> "undefined"]
    /\ indexOfSlotStart(T(10, 30, "AM")) = 3
    /\ indexOfSlotEnd(T(11, 0, "AM")) = 3

\* The step is a save whose storage write throws
FailedSaveStep ==
    /\ lastOp'.name \in {"autosaveTimerFires", "handleManualSave"}
    /\ lastOp'.outcome = "error"

\* What a failed save leaves behind, and what editing does while the
\* status shows the error
FailedSaveKeepsMemory ==
    /\ FailedSaveStep
       => /\ autosaveStatus' = "error"
          /\ events' = events /\ lastSavedAt' = lastSavedAt /\ storage' = storage
    /\ (FailedSaveStep /\ lastOp'.name = "autosaveTimerFires")
       => timers' = <<>> /\ autosaveTimer' = 0
    /\ (FailedSaveStep /\ lastOp'.name = "handleManualSave")
       => timers' = timers /\ autosaveTimer' = autosaveTimer
    /\ (autosaveStatus = "error" /\ lastOp'.name = "saveSlot"
          /\ lastOp'.outcome \in {"added", "edited"})
       => events' # events /\ storage' = storage
    /\ (autosaveStatus = "error" /\ lastOp'.name = "deleteEvent")
       => Len(events') < Len(events) /\ storage' = storage

\* With the error shown and no timer pending, a step that leaves a timer
\* pending is a step of one of the handlers named
CycleStartsOnlyBy(handlers) ==
    (autosaveStatus = "error" /\ timers = <<>> /\ timers' # <<>>)
    => lastOp'.name \in handlers

\* The handlers that change the event set, the storage key or the autosave toggle
MutationHandlers ==
    {"saveSlot", "deleteEvent", "doReset", "setSelectedClass", "setSemester", "setAutosaveEnabled"}

LoadedItem == storage[makeStorageKey']

\* Element i of the stored array and the event made of it
Converted(ev, out) ==
    /\ "days" \in DOMAIN out
    /\ DOMAIN out.days = 1..Len(out.days)
    /\ "days" \in DOMAIN ev => out = ev
    /\ ("days" \notin DOMAIN ev /\ "day" \in DOMAIN ev) => out.days = <<ev.day>>
    /\ "days" \notin DOMAIN ev
       => /\ IF "id" \in DOMAIN ev THEN out.id = ev.id
             ELSE /\ out.id >= nextId /\ out.id < nextId'
                  /\ \A k \in 1..Len(events) : "id" \in DOMAIN events[k] => events[k].id # out.id
          /\ out.createdBy = (IF "createdBy" \in DOMAIN ev THEN ev.createdBy ELSE "unknown")
          /\ out.createdAt = (IF "createdAt" \in DOMAIN ev THEN ev.createdAt ELSE clock)
          /\ out.start = ev.start /\ out.end = ev.end /\ out.subject = ev.subject

\* C23: loading a stored record never throws and yields events that all
\* have a days array: an event with a days array is taken unchanged, a
\* legacy event with a day string and no days becomes days = [day], and a
\* converted event gets a fresh id, "unknown" and the current time for a
\* missing id, createdBy and createdAt while present values are kept.  An
\* item the effect cannot read (no item, unparseable text, a null element)
\* leaves the state as it is.
C23_LegacyLoad ==
    [][ KeyChangeStep
        => IF LoadedItem.kind = "json" /\ \A i \in 1..Len(LoadedItem.events) : LoadedItem.events[i] # JsonNull
           THEN /\ Len(events') = Len(LoadedItem.events)
                /\ \A i \in 1..Len(events') : Converted(LoadedItem.events[i], events'[i])
                /\ \A i \in 1..Len(events') : \A j \in 1..Len(events') :
                      (i # j /\ NeedsId(LoadedItem.events[i]) /\ "id" \in DOMAIN events'[j])
                      => events'[i].id # events'[j].id
                /\ lastOp'.outcome = "loaded"
           ELSE events' = events /\ nextId' = nextId /\ lastOp'.outcome = "kept" ]_vars

\* C23 witness: the record {day: "Friday"} without id, createdBy and
\* createdAt loaded as a Friday event with a made id, "unknown" and now
C23_Witness ==
    /\ lastOp = Op("setSemester", "-", "loaded")
    /\ Len(events) = 1
    /\ storage[makeStorageKey].events = <<LegacyBase @@ [f \in {"day"} |-> LegacyOptional[f]]>>
    /\ events[1].days = <<"Friday">>
    /\ events[1].id = 1 /\ nextId = 2
    /\ events[1].createdBy = "unknown" /\ events[1].createdAt = clock

\* C24: the record stored under a key only ever contains events that were
\* created, edited or loaded while that key was the current key; after a
\* switch from a key with events in memory to a key without a record, no
\* autosave or manual save writes those events under the new key.  Here
\* every event is created while the first semester is chosen and the
\* storage starts empty, so a record under the key of the second semester
\* holds no event.
C24_PerKeyIsolation ==
    storage[SecondSemesterKey].kind = "json"
    => storage[SecondSemesterKey].events = <<>>

\* The key of the first semester, under which the builder mounts
FirstSemesterKey == makeStorageKeyOf("", DefaultSchoolYear, "first")

\* The first class of the run has just been created while the first
\* semester is chosen and autosave is on
CreatedUnderFirstKey ==
    /\ semester = "first" /\ autosaveEnabled
    /\ lastOp.name = "saveSlot" /\ lastOp.outcome = "added"
    /\ events # <<>> /\ events[Len(events)].id = 1

\* The record under the first key holds that class; or the user has since
\* deleted it, reset the schedule or turned autosave off
ReflectedUnderFirstKey ==
    \/ /\ storage[FirstSemesterKey].kind = "json"
       /\ \E k \in 1..Len(storage[FirstSemesterKey].events) :
             storage[FirstSemesterKey].events[k].id = 1
    \/ lastOp.name \in {"deleteEvent", "doReset"}
    \/ ~autosaveEnabled

\* C25: with autosave on and writes that succeed, a creation accepted
\* while a key is current is eventually reflected in the record stored
\* under that key, even when the user switches to another key before the
\* debounce timer of the creation has fired.
C25_NoEditLostByKeySwitch == CreatedUnderFirstKey ~> ReflectedUnderFirstKey

\* C26: in every reachable state (any interleaving of creations with
\* changes of the schedule type), no event of the in-memory set covers a
\* break slot of the current slot sequence on an active weekday that is not
\* exempt (Friday under SHS): no event is hidden behind a break label cell.
C26_NoEventCoversBreak ==
    \A a \in 1..Len(events) : \A k \in 1..Len(weekDays) : \A i \in 0..(Len(timeSlots) - 1) :
        (Claims(events[a], weekDays[k], i) /\ timeSlots[i + 1].kind = "break")
        => (scheduleType = "shs" /\ weekDays[k] = "Friday")

\* C27: an autosave, a manual save or a reset changes the record of no
\* (class, school year, semester) triple other than the current one: it
\* writes or removes only the key made from the current triple, and no
\* other triple shares that key.
PersistenceStep == lastOp'.name \in {"autosaveTimerFires", "handleManualSave", "doReset"}

OtherTriples == {t \in KeyTriples : t # <<selectedClass, schoolYear, semester>>}

C27_PersistenceFrame ==
    [][PersistenceStep =>
          \A t \in OtherTriples :
              /\ makeStorageKeyOf(t[1], t[2], t[3]) # makeStorageKey
              /\ storage'[makeStorageKeyOf(t[1], t[2], t[3])] = storage[makeStorageKeyOf(t[1], t[2], t[3])]]_vars

\* A save or a reset has just changed the current key while another key holds a record
C27_Witness ==
    /\ lastOp.name \in {"autosaveTimerFires", "handleManualSave", "doReset"}
    /\ lastOp.outcome # "error"
    /\ <<selectedClass, schoolYear, semester>> # <<"", DefaultSchoolYear, "first">>
    /\ \E t \in OtherTriples : storage[makeStorageKeyOf(t[1], t[2], t[3])] # NoItem
    /\ (lastOp.name = "doReset") = (storage[makeStorageKey] = NoItem)

\* C28: after any sequence of creations, edits and deletions from the empty
\* event set, the days of every event are a non-empty run without repeats
\* of consecutive days of Monday..Saturday, in order; an edit leaves the
\* days of a multi-day event as they were whatever the day select holds,
\* and sets the days of a single-day event to exactly the selected day.
SixDays == weekDaysOf("tesda")

IsRunOfSixDays(days) ==
    /\ Len(days) >= 1
    /\ \A j, k \in 1..Len(days) : j # k => days[j] # days[k]
    /\ \E ds \in 1..Len(SixDays) :
          /\ ds + Len(days) - 1 <= Len(SixDays)
          /\ \A k \in 1..Len(days) : days[k] = SixDays[ds + k - 1]

EditSavedStep ==
    /\ lastOp'.name = "saveSlot" /\ lastOp'.path = "edit"
    /\ lastOp'.outcome \in {"edited", "nochange"}

C28_DaysWellFormed ==
    /\ [](\A i \in 1..Len(events) : IsRunOfSixDays(events[i].days))
    /\ [][EditSavedStep =>
            /\ Len(events') = Len(events)
            /\ events'[EditTargetPos].days =
                   (IF Len(events[EditTargetPos].days) > 1
                    THEN events[EditTargetPos].days
                    ELSE <<formDay>>)
            /\ \A i \in 1..Len(events) : i # EditTargetPos => events'[i] = events[i]]_vars

\* An edit has just changed a multi-day event, whose days are still a run
C28_Witness ==
    /\ lastOp = Op("saveSlot", "edit", "edited")
    /\ \E i \in 1..Len(events) :
          /\ Len(events[i].days) > 1
          /\ events[i].modifiedAt # NoTimestamp

\* C30: after any sequence of creations and edits from the empty set, no
\* two distinct events of the in-memory set have the same days, start, end,
\* subject, teacher and room: the exclusion of exact duplicates applied on
\* creation is kept by edits.
SameClass(a, b) ==
    /\ arraysEqual(a.days, b.days)
    /\ a.start = b.start /\ a.end = b.end
    /\ a.subject = b.subject /\ a.teacher = b.teacher /\ a.room = b.room

C30_NoExactDuplicates ==
    \A i, j \in 1..Len(events) : i # j => ~SameClass(events[i], events[j])

====
